---- MODULE Spec2Model ----
(***************************************************************************)
(* A model of the style synchronization engine of the Tana tag colour      *)
(* plugin (src/src/main.ts): the property cache, the property resolution   *)
(* of processPanelBlocks, the style writers, the style change detector     *)
(* and the unified mutation observer.                                      *)
(***************************************************************************)
EXTENDS Integers, Sequences, FiniteSets, TLC

VARIABLES
  \* ---- DataCache (main.ts 477-564) and the clock it reads
  blockPropertiesCache, \* Map<blockId, {colorValue, iconValue, colorEnabled, iconEnabled, timestamp}>
  now,                  \* performance.now()
  advances,             \* number of clock steps taken (bounds the clock)
  stored,               \* history: the last setBlockProperties of every block id
  lastRead              \* history: the last getBlockProperties call and what it returned

cacheVars == <<blockPropertiesCache, now, advances, stored, lastRead>>

VARIABLES
  \* ---- one container resolved by processPanelBlocks (main.ts 2090-2326, 2507-2530)
  rCase,      \* the backend the container is resolved against (see Backend)
  rHasTags,   \* the container element shows .orca-tags .orca-tag
  rDark,      \* isDarkMode() && settings.useDomColor
  rStage,     \* "input", "resolved", "processed"
  rOut,       \* the result of the container's promise
  rProcessed  \* the entry of processedBlocks made from it

resolveVars == <<rCase, rHasTags, rDark, rStage, rOut, rProcessed>>


(***************************************************************************)
(* Values                                                                  *)
(***************************************************************************)
\* JavaScript null where a string is expected (a colour or icon that is absent)
Null == "null"

\* JavaScript null / undefined where an object is expected
NoValue == [absent |-> TRUE]

Min(a, b) == IF a < b THEN a ELSE b

RECURSIVE SeqToSet(_)
SeqToSet(s) == IF s = <<>> THEN {} ELSE {Head(s)} \cup SeqToSet(Tail(s))

\* Array.prototype.filter with the predicate given as the set of kept values
RECURSIVE FilterSeq(_, _)
FilterSeq(s, keep) ==
  IF s = <<>> THEN <<>>
  ELSE IF Head(s) \in keep THEN <<Head(s)>> \o FilterSeq(Tail(s), keep)
  ELSE FilterSeq(Tail(s), keep)

(***************************************************************************)
(* DataCache                                                               *)
(***************************************************************************)
CACHE_TTL == 5000

\* the four fields every style property result carries
StyleProps(c, i, ce, ie) ==
  [colorValue |-> c, iconValue |-> i, colorEnabled |-> ce, iconEnabled |-> ie]

NoProps == StyleProps(Null, Null, FALSE, FALSE)

\* Map.delete
MapDelete(m, k) == [x \in DOMAIN m \ {k} |-> m[x]]

\* Map.set
MapSet(m, k, v) == [x \in DOMAIN m \cup {k} |-> IF x = k THEN v ELSE m[x]]

\* a variant of getBlockProperties that forgets the expiry check
getBlockPropertiesNoExpiry(cache, t, blockId) ==
  IF blockId \notin DOMAIN cache THEN [ret |-> NoValue, cache |-> cache]
  ELSE [ret |-> StyleProps(cache[blockId].colorValue, cache[blockId].iconValue,
                           cache[blockId].colorEnabled, cache[blockId].iconEnabled),
        cache |-> cache]

\* DataCache.getBlockProperties: the value returned and the cache it leaves
getBlockProperties(cache, t, blockId) ==
  IF blockId \notin DOMAIN cache THEN [ret |-> NoValue, cache |-> cache]
  ELSE IF t - cache[blockId].timestamp > CACHE_TTL
       THEN [ret |-> NoValue, cache |-> MapDelete(cache, blockId)]
       ELSE [ret |-> StyleProps(cache[blockId].colorValue, cache[blockId].iconValue,
                                cache[blockId].colorEnabled, cache[blockId].iconEnabled),
             cache |-> cache]

\* DataCache.setBlockProperties
setBlockProperties(cache, t, blockId, p) ==
  MapSet(cache, blockId,
         [colorValue |-> p.colorValue, iconValue |-> p.iconValue,
          colorEnabled |-> p.colorEnabled, iconEnabled |-> p.iconEnabled,
          timestamp |-> t])

\* DataCache.cleanupExpiredCache
cleanupExpiredCache(cache, t) ==
  LET expiredKeys == {b \in DOMAIN cache : t - cache[b].timestamp > CACHE_TTL}
  IN  [x \in DOMAIN cache \ expiredKeys |-> cache[x]]

\* DataCache.clearAllCache
clearAllDataCache == <<>>

(***************************************************************************)
(* The cache driven by set / get / cleanup calls and a clock               *)
(***************************************************************************)
\* block ids the cache calls are made for
CacheIds == {1, 2}

\* results a caller stores
CachedResults ==
  { NoProps, StyleProps("#ff0000", "ti ti-cube", TRUE, TRUE) }

\* clock steps: just below, at and (by two steps) just above the TTL
ClockSteps == {1, CACHE_TTL - 1, CACHE_TTL}
MaxAdvances == 3

NoRead == [id |-> 0, at |-> 0, ret |-> NoValue, written |-> FALSE, writtenAt |-> 0, value |-> NoProps]

CacheInit ==
  /\ blockPropertiesCache = <<>>
  /\ now = 0
  /\ advances = 0
  /\ stored = [b \in CacheIds |-> [written |-> FALSE, at |-> 0, value |-> NoProps]]
  /\ lastRead = NoRead

CacheSet(b, p) ==
  /\ blockPropertiesCache' = setBlockProperties(blockPropertiesCache, now, b, p)
  /\ stored' = [stored EXCEPT ![b] = [written |-> TRUE, at |-> now, value |-> p]]
  /\ UNCHANGED <<now, advances, lastRead>>

CacheGet(b) ==
  LET r == getBlockProperties(blockPropertiesCache, now, b)
  IN  /\ blockPropertiesCache' = r.cache
      /\ lastRead' = [id |-> b, at |-> now, ret |-> r.ret,
                      written |-> stored[b].written, writtenAt |-> stored[b].at,
                      value |-> stored[b].value]
      /\ UNCHANGED <<now, advances, stored>>

CacheCleanup ==
  /\ blockPropertiesCache' = cleanupExpiredCache(blockPropertiesCache, now)
  /\ UNCHANGED <<now, advances, stored, lastRead>>

CacheAdvance(d) ==
  /\ advances < MaxAdvances
  /\ now' = now + d
  /\ advances' = advances + 1
  /\ UNCHANGED <<blockPropertiesCache, stored, lastRead>>

\* C4: a read less than CACHE_TTL after the last write of the block returns
\* exactly the value written; a read more than CACHE_TTL after it is a miss;
\* so no entry older than the TTL is ever returned.
C4_TtlCorrect ==
  lastRead.written =>
    /\ (lastRead.at - lastRead.writtenAt < CACHE_TTL => lastRead.ret = lastRead.value)
    /\ (lastRead.at - lastRead.writtenAt > CACHE_TTL => lastRead.ret = NoValue)

\* C4 witness: a block was written, the clock went past the TTL, the read missed
C4_Witness ==
  /\ lastRead.written
  /\ lastRead.at - lastRead.writtenAt > CACHE_TTL
  /\ lastRead.ret = NoValue

(***************************************************************************)
(* Backend blocks and getBlockStyleProperties                              *)
(***************************************************************************)
Prop(n, t, v) == [name |-> n, type |-> t, value |-> v]
Ref(i, to, t) == [id |-> i, to |-> to, type |-> t]
\* a block as "get-block" returns it: its _color / _icon properties, the value
\* of its _tags property (NoValue when it has none) and its references
Block(props, tags, refs) == [properties |-> props, tags |-> tags, refs |-> refs]

\* Array.prototype.find on a property list: the first property of that name
RECURSIVE FindProp(_, _)
FindProp(props, n) ==
  IF props = <<>> THEN NoValue
  ELSE IF Head(props).name = n THEN Head(props)
  ELSE FindProp(Tail(props), n)

\* the for loop of getBlockStyleProperties (main.ts 1972-1981): it stops once
\* both a _color and an _icon property were seen
RECURSIVE ScanStyleProps(_, _, _)
ScanStyleProps(props, colorProperty, iconProperty) ==
  IF props = <<>> THEN [color |-> colorProperty, icon |-> iconProperty]
  ELSE LET prop == Head(props) IN
       IF prop.name = "_color"
       THEN IF iconProperty # NoValue THEN [color |-> prop, icon |-> iconProperty]
            ELSE ScanStyleProps(Tail(props), prop, iconProperty)
       ELSE IF prop.name = "_icon"
       THEN IF colorProperty # NoValue THEN [color |-> colorProperty, icon |-> prop]
            ELSE ScanStyleProps(Tail(props), colorProperty, prop)
       ELSE ScanStyleProps(Tail(props), colorProperty, iconProperty)

\* value || null
OrNull(v) == IF v = "" \/ v = Null THEN Null ELSE v

\* getBlockStyleProperties on a cache miss: what it computes from the block the
\* backend returned (NoValue when the call threw or returned nothing)
DecodeStyleProps(block) ==
  IF block = NoValue THEN NoProps
  ELSE LET f == ScanStyleProps(block.properties, NoValue, NoValue)
           colorEnabled == f.color # NoValue /\ f.color.type = 1
           iconEnabled == f.icon # NoValue /\ f.icon.type = 1
       IN  StyleProps(IF colorEnabled THEN OrNull(f.color.value) ELSE Null,
                      IF iconEnabled THEN OrNull(f.icon.value) ELSE Null,
                      colorEnabled, iconEnabled)

\* calculateDomColor
calculateDomColor(colorValue) == "oklch(from " \o colorValue \o " calc(1.3 * l) c h)"

(***************************************************************************)
(* The resolution of one container element (processPanelBlocks)            *)
(***************************************************************************)
\* the tag cap of processPanelBlocks: getFirstValidTagProps(sortedTagRefs, 4)
MAX_TAGS == 4

\* (tagProps.colorEnabled && tagProps.colorValue) || (tagProps.iconEnabled && tagProps.iconValue)
HasColor(p) == p.colorEnabled /\ p.colorValue # Null
HasIcon(p) == p.iconEnabled /\ p.iconValue # Null

\* getFirstValidTagProps: P[id] is what getBlockStyleProperties(id) returns.
\* valid: the properties kept, each with its blockId; fetched: the ids asked for
RECURSIVE getFirstValidTagProps(_, _, _, _, _)
getFirstValidTagProps(tagRefs, maxCount, P, valid, fetched) ==
  IF tagRefs = <<>> \/ Len(valid) >= maxCount
  THEN [valid |-> valid, fetched |-> fetched]
  ELSE LET ref == Head(tagRefs)
           tagProps == P[ref.to]
       IN  getFirstValidTagProps(
             Tail(tagRefs), maxCount, P,
             IF HasColor(tagProps) \/ HasIcon(tagProps)
             THEN Append(valid, [props |-> tagProps, blockId |-> ref.to])
             ELSE valid,
             Append(fetched, ref.to))

\* blockData.refs.filter(ref => ref.type === 2)
RECURSIVE TagRefsOf(_)
TagRefsOf(refs) ==
  IF refs = <<>> THEN <<>>
  ELSE IF Head(refs).type = 2 THEN <<Head(refs)>> \o TagRefsOf(Tail(refs))
  ELSE TagRefsOf(Tail(refs))

\* tagRefsMap.get(tagId): the last reference with that id (Map.set overwrites)
RECURSIVE LastRefWithId(_, _, _)
LastRefWithId(refs, tagId, found) ==
  IF refs = <<>> THEN found
  ELSE LastRefWithId(Tail(refs), tagId,
                     IF Head(refs).id = tagId THEN Head(refs) ELSE found)

\* orderedTagIds.map(id => tagRefsMap.get(id)).filter(ref => ref !== undefined)
RECURSIVE OrderByTags(_, _)
OrderByTags(orderedTagIds, allTagRefs) ==
  IF orderedTagIds = <<>> THEN <<>>
  ELSE LET ref == LastRefWithId(allTagRefs, Head(orderedTagIds), NoValue)
       IN  (IF ref = NoValue THEN <<>> ELSE <<ref>>)
           \o OrderByTags(Tail(orderedTagIds), allTagRefs)

\* a variant that ignores the _tags order list
SortedTagRefsByRefs(blockData) == TagRefsOf(blockData.refs)

\* sortedTagRefs of the tagged branch (main.ts 2121-2141)
SortedTagRefs(blockData) ==
  LET allTagRefs == TagRefsOf(blockData.refs)
  IN  IF blockData.tags # NoValue
      THEN OrderByTags(blockData.tags.value, allTagRefs)
      ELSE allTagRefs

\* validTagProps.filter(props => props.colorEnabled && props.colorValue).map(props => props.colorValue)
RECURSIVE ValidTagColors(_)
ValidTagColors(validTagProps) ==
  IF validTagProps = <<>> THEN <<>>
  ELSE (IF HasColor(Head(validTagProps).props)
        THEN <<Head(validTagProps).props.colorValue>> ELSE <<>>)
       \o ValidTagColors(Tail(validTagProps))

\* the object a container promise resolves to
Result(blockId, aliasBlockId, colorValue, iconValue, colorSource, tagColors) ==
  [blockId |-> blockId, aliasBlockId |-> aliasBlockId, colorValue |-> colorValue,
   iconValue |-> iconValue, colorSource |-> colorSource,
   domColor |-> IF colorValue = Null THEN Null ELSE calculateDomColor(colorValue),
   elementType |-> "container", tagColors |-> tagColors]

\* what one container promise does: result (NoValue for null), whether it
\* called cleanupBlockStyles on the element, and the ids it asked
\* getBlockStyleProperties for, in order
Outcome(result, cleanup, fetched) ==
  [result |-> result, cleanup |-> cleanup, fetched |-> fetched]

\* the branch for an element with .orca-tags .orca-tag (main.ts 2105-2278)
ResolveTagged(dataId, blockData, P) ==
  IF blockData = NoValue THEN Outcome(NoValue, FALSE, <<>>)   \* blockData.refs throws: catch
  ELSE IF blockData.refs = <<>> THEN Outcome(NoValue, TRUE, <<>>)
  ELSE LET sortedTagRefs == SortedTagRefs(blockData) IN
  IF sortedTagRefs = <<>> THEN Outcome(NoValue, TRUE, <<>>)
  ELSE LET got == getFirstValidTagProps(sortedTagRefs, MAX_TAGS, P, <<>>, <<>>)
           validTagProps == got.valid
       IN
  IF validTagProps = <<>> THEN Outcome(NoValue, TRUE, got.fetched)
  ELSE LET firstTagProps == validTagProps[1]
           blockStyleProps == P[dataId]
           fetched == Append(got.fetched, dataId)
           validTagColors == ValidTagColors(validTagProps)
       IN
  IF HasColor(blockStyleProps)
  THEN Outcome(Result(dataId, dataId, blockStyleProps.colorValue,
                      IF blockStyleProps.iconValue = Null
                      THEN firstTagProps.props.iconValue
                      ELSE blockStyleProps.iconValue,
                      "block", <<blockStyleProps.colorValue>>),
               FALSE, fetched)
  ELSE IF HasIcon(blockStyleProps)
  THEN IF validTagColors = <<>>
       THEN Outcome(Result(dataId, dataId, Null, blockStyleProps.iconValue, "block", <<>>),
                    FALSE, fetched)
       ELSE Outcome(Result(dataId, firstTagProps.blockId, validTagColors[1],
                           blockStyleProps.iconValue, "tag", validTagColors),
                    FALSE, fetched)
  ELSE IF validTagColors = <<>>
  THEN IF HasIcon(firstTagProps.props)
       THEN Outcome(Result(dataId, firstTagProps.blockId, Null,
                           firstTagProps.props.iconValue, "tag", <<>>),
                    FALSE, fetched)
       ELSE Outcome(NoValue, FALSE, fetched)
  ELSE Outcome(Result(dataId, firstTagProps.blockId, validTagColors[1],
                      firstTagProps.props.iconValue, "tag", validTagColors),
               FALSE, fetched)

\* the branch for an element without tag markers (main.ts 2279-2322)
ResolveUntagged(dataId, P) ==
  LET blockStyleProps == P[dataId] IN
  IF HasColor(blockStyleProps)
  THEN Outcome(Result(dataId, dataId, blockStyleProps.colorValue, blockStyleProps.iconValue,
                      "block", <<blockStyleProps.colorValue>>),
               FALSE, <<dataId>>)
  ELSE IF HasIcon(blockStyleProps)
  THEN Outcome(Result(dataId, dataId, Null, blockStyleProps.iconValue, "block", <<>>),
               FALSE, <<dataId>>)
  ELSE Outcome(NoValue, TRUE, <<dataId>>)

\* the promise of one container element (main.ts 2092-2323)
ResolveContainer(dataId, hasTags, blockData, P) ==
  IF hasTags THEN ResolveTagged(dataId, blockData, P)
  ELSE ResolveUntagged(dataId, P)

\* one entry of processedBlocks (main.ts 2509-2530): NoValue when the block is
\* dropped by filter(Boolean); dark is isDarkMode() && useDomColor
ProcessBlock(block, dark) ==
  IF block.colorValue = Null THEN NoValue
  ELSE [blockId |-> block.blockId,
        displayColor |-> IF block.colorSource = "block" THEN block.colorValue
                         ELSE IF dark
                              THEN (IF block.domColor # Null THEN block.domColor
                                    ELSE block.colorValue)
                              ELSE block.colorValue,
        bgColorValue |-> block.colorValue,
        iconValue |-> block.iconValue,
        tagColors |-> block.tagColors,
        colorSource |-> block.colorSource]

\* the writer the apply stage and the observer pick (main.ts 2555-2559, 1004-1010)
MultiWriter == "applyMultiTagHandleColor"
SingleWriter == "applyBlockHandleColor"
\* a variant that sends a single colour to the multi-tag writer
WriterForAtLeastOne(tagColors) == IF Len(tagColors) >= 1 THEN MultiWriter ELSE SingleWriter
WriterFor(tagColors) == IF Len(tagColors) > 1 THEN MultiWriter ELSE SingleWriter

(***************************************************************************)
(* One container resolved over every small backend                         *)
(***************************************************************************)
\* the container's block id; the tag blocks of block id are 10 * id + 1, ...,
\* and 10 * id is a block it references that is no tag
ContainerId == 1
MaxRefs == 5
TagId(id, i) == 10 * id + i
RefId(id, i) == 100 * id + i
OtherId(id) == 10 * id

TagColorTable == <<"#111111", "#222222", "#333333", "#444444", "#555555", "#666666", "#777777">>
TagColorOf(i) == TagColorTable[((i - 1) % Len(TagColorTable)) + 1]
TagIconTable == <<"emoji-star", "ti ti-star", "ti ti-cube", "ti ti-flag">>
TagIconOf(i) == TagIconTable[((i - 1) % Len(TagIconTable)) + 1]

\* the _color / _icon properties of a block, by kind
PropKinds == {"none", "color", "icon", "both"}
OwnKinds == PropKinds \cup {"disabled", "empty"}
PropsOfKind(kind, color, icon) ==
  CASE kind = "none" -> <<>>
    [] kind = "color" -> <<Prop("_color", 1, color)>>
    [] kind = "icon" -> <<Prop("_icon", 1, icon)>>
    [] kind = "both" -> <<Prop("_color", 1, color), Prop("_icon", 1, icon)>>
    [] kind = "disabled" -> <<Prop("_color", 0, color), Prop("_icon", 0, icon)>>
    [] kind = "empty" -> <<Prop("_color", 1, ""), Prop("_icon", 1, "")>>

\* the container's own _color and _icon values, when it has them
OwnColor == "#ff0000"
OwnIcon == "ti ti-home"

RECURSIVE Reverse(_)
Reverse(s) == IF s = <<>> THEN <<>> ELSE Append(Reverse(Tail(s)), Head(s))

\* a backend case: the container has k tag references and its own properties;
\* withOther: a leading reference that is no tag; withOrder: a _tags order
\* list (the references reversed, after an id no reference has)
BackendCases ==
  { c \in [k : 0..MaxRefs, ownKind : OwnKinds, tagKinds : [1..MaxRefs -> PropKinds],
           withOther : BOOLEAN, withOrder : BOOLEAN] :
      \A i \in 1..MaxRefs : i > c.k => c.tagKinds[i] = "none" }

\* the blocks "get-block" returns for container id and the blocks it references
\* in a backend case
BackendOf(id, c) ==
  LET tagRefs == [i \in 1..c.k |-> Ref(RefId(id, i), TagId(id, i), 2)]
      refs == (IF c.withOther THEN <<Ref(RefId(id, 0), OtherId(id), 1)>> ELSE <<>>) \o tagRefs
      order == IF c.withOrder
               THEN [value |-> <<RefId(id, 99)>> \o Reverse([i \in 1..c.k |-> RefId(id, i)])]
               ELSE NoValue
  IN  [e \in {id, OtherId(id)} \cup {TagId(id, i) : i \in 1..c.k} |->
         IF e = id
         THEN Block(PropsOfKind(c.ownKind, OwnColor, OwnIcon), order, refs)
         ELSE IF e = OtherId(id)
         THEN Block(PropsOfKind("both", "#00ff00", "ti ti-link"), NoValue, <<>>)
         ELSE Block(PropsOfKind(c.tagKinds[e - 10 * id], TagColorOf(e - 10 * id),
                                TagIconOf(e - 10 * id)),
                    NoValue, <<>>)]

Backend(c) == BackendOf(ContainerId, c)

rBlocks == Backend(rCase)

\* what getBlockStyleProperties returns for every block on an empty cache
FreshProps(blocks) == [e \in DOMAIN blocks |-> DecodeStyleProps(blocks[e])]

NoOutcome == Outcome(NoValue, FALSE, <<>>)

ResolveInit ==
  /\ rCase \in BackendCases
  /\ rHasTags \in BOOLEAN
  /\ rDark = FALSE
  /\ rStage = "input"
  /\ rOut = NoOutcome
  /\ rProcessed = NoValue

\* the container promise runs
ResolveAct ==
  /\ rStage = "input"
  /\ rOut' = ResolveContainer(ContainerId, rHasTags, rBlocks[ContainerId], FreshProps(rBlocks))
  /\ rStage' = "resolved"
  /\ UNCHANGED <<rCase, rHasTags, rDark, rProcessed>>

\* the result goes through processedBlocks
ProcessAct(dark) ==
  /\ rStage = "resolved"
  /\ rOut.result # NoValue
  /\ rDark' = dark
  /\ rProcessed' = ProcessBlock(rOut.result, dark)
  /\ rStage' = "processed"
  /\ UNCHANGED <<rCase, rHasTags, rOut>>

\* C5: whenever the container entity has an enabled, non-empty colour of its
\* own, its resolution has source 'block', colorValue = the own colour and
\* tagColors = <<own colour>>, whatever its tags are and whether or not the
\* element shows tag markers; its icon is its own icon, else the icon of the
\* first tag that has a colour or an icon.
C5_TagsWithStyle ==
  LET order == IF rCase.withOrder THEN Reverse([i \in 1..rCase.k |-> i])
               ELSE [i \in 1..rCase.k |-> i]
  IN  FilterSeq(order, {i \in 1..rCase.k : rCase.tagKinds[i] # "none"})
C5_OwnColourWins ==
  (rStage # "input" /\ rCase.ownKind \in {"color", "both"}) =>
    /\ rOut.result # NoValue
    /\ rOut.result.colorSource = "block"
    /\ rOut.result.colorValue = OwnColor
    /\ rOut.result.tagColors = <<OwnColor>>
    /\ rOut.result.iconValue =
         IF rCase.ownKind = "both" THEN OwnIcon
         ELSE IF rHasTags /\ C5_TagsWithStyle # <<>>
                 /\ rCase.tagKinds[C5_TagsWithStyle[1]] \in {"icon", "both"}
              THEN TagIconOf(C5_TagsWithStyle[1])
              ELSE Null

\* C6 (as the code has it): for a container that shows tag markers and whose
\* entity has neither a colour nor an icon of its own, take the tags in the
\* order of the _tags list when there is one (else in the order of the backend
\* references), keep those that have a colour or an icon, and cut after the
\* first MAX_TAGS of them: tagColors is the list of the colours of the kept
\* tags that have a colour, in that order; when it is not empty the colour
\* base is tagColors[1], the source is 'tag' and the icon is the icon of the
\* first kept tag.
C6_Considered ==
  LET order == IF rCase.withOrder THEN [i \in 1..rCase.k |-> rCase.k + 1 - i]
               ELSE [i \in 1..rCase.k |-> i]
      styled == FilterSeq(order, {i \in 1..rCase.k : rCase.tagKinds[i] \in {"color", "icon", "both"}})
  IN  SubSeq(styled, 1, Min(Len(styled), MAX_TAGS))
C6_Expected ==
  LET coloured == FilterSeq(C6_Considered, {i \in 1..rCase.k : rCase.tagKinds[i] \in {"color", "both"}})
  IN  [j \in 1..Len(coloured) |-> TagColorOf(coloured[j])]
C6_NoOwnStyle == rCase.ownKind \in {"none", "disabled", "empty"}
C6_AllColoured ==
  LET order == IF rCase.withOrder THEN [i \in 1..rCase.k |-> rCase.k + 1 - i]
               ELSE [i \in 1..rCase.k |-> i]
      coloured == FilterSeq(order, {i \in 1..rCase.k : rCase.tagKinds[i] \in {"color", "both"}})
  IN  [j \in 1..Len(coloured) |-> TagColorOf(coloured[j])]
VARIABLES
  handle,      \* per container: its own .orca-block-handle (inline style, data-icon, classes)
  title,       \* per container: style.color of its own .orca-repr-title
  inlineText,  \* per container: style.color of its own .orca-inline[data-type="t"]
  cstyle,      \* per container: what the container element's own style / data-icon / 'b' class read as
  rafQueue     \* the callbacks given to requestAnimationFrame, not yet run

domVars == <<handle, title, inlineText, cstyle, rafQueue>>

Nodes == {"n1", "n2"}
\* the container elements of the panel in document order
ContainerElements == <<"n1", "n2">>
\* the data-id attribute of a container element
DataId(n) == IF n = "n1" THEN 1 ELSE 2
\* the container elements at or below n (n2 is nested in n1)
Below(n) == IF n = "n1" THEN {"n1", "n2"} ELSE {n}

COLLAPSED == "orca-block-handle-collapsed"

\* an element's inline style and attributes: "" is an absent property
Handle(color, backgroundColor, backgroundImage, opacity, dataIcon, classes) ==
  [color |-> color, backgroundColor |-> backgroundColor, backgroundImage |-> backgroundImage,
   opacity |-> opacity, dataIcon |-> dataIcon, classes |-> classes]
CleanHandle == Handle("", "", "", "", "", {})

\* iconValue.split(' ').filter(cls => cls.trim() !== '')
IconClasses(iconValue) ==
  CASE iconValue = "ti ti-home" -> {"ti", "ti-home"}
    [] iconValue = "ti ti-cube" -> {"ti", "ti-cube"}
    [] iconValue = "ti ti-star" -> {"ti", "ti-star"}
    [] iconValue = "ti ti-flag" -> {"ti", "ti-flag"}
    [] iconValue = "ti ti-link" -> {"ti", "ti-link"}
    [] OTHER -> {iconValue}
\* iconValue.startsWith('ti ')
StartsWithTi(iconValue) ==
  iconValue \in {"ti ti-home", "ti ti-cube", "ti ti-star", "ti ti-flag", "ti ti-link"}
\* cls === 'ti' || cls.startsWith('ti-')
IsTablerClass(cls) == cls \in {"ti", "ti-home", "ti-cube", "ti-star", "ti-flag", "ti-link"}

\* hex.replace('#', '') cut into its three pairs of digits
HexPairs(hex) ==
  CASE hex = "#ff0000" -> <<"ff", "00", "00">>
    [] hex = "#00ff00" -> <<"00", "ff", "00">>
    [] hex = "#111111" -> <<"11", "11", "11">>
    [] hex = "#222222" -> <<"22", "22", "22">>
    [] hex = "#333333" -> <<"33", "33", "33">>
    [] hex = "#444444" -> <<"44", "44", "44">>
    [] hex = "#555555" -> <<"55", "55", "55">>
    [] hex = "#666666" -> <<"66", "66", "66">>
    [] hex = "#777777" -> <<"77", "77", "77">>
\* parseInt(pair, 16)
HexDigit(d) ==
  CASE d = "0" -> 0 [] d = "1" -> 1 [] d = "2" -> 2 [] d = "3" -> 3 [] d = "4" -> 4
    [] d = "5" -> 5 [] d = "6" -> 6 [] d = "7" -> 7 [] d = "f" -> 15
ParseHexPair(pair) ==
  CASE pair = "00" -> 16 * HexDigit("0") + HexDigit("0")
    [] pair = "11" -> 16 * HexDigit("1") + HexDigit("1")
    [] pair = "22" -> 16 * HexDigit("2") + HexDigit("2")
    [] pair = "33" -> 16 * HexDigit("3") + HexDigit("3")
    [] pair = "44" -> 16 * HexDigit("4") + HexDigit("4")
    [] pair = "55" -> 16 * HexDigit("5") + HexDigit("5")
    [] pair = "66" -> 16 * HexDigit("6") + HexDigit("6")
    [] pair = "77" -> 16 * HexDigit("7") + HexDigit("7")
    [] pair = "ff" -> 16 * HexDigit("f") + HexDigit("f")

\* hexToRgba; alpha is given as JavaScript prints the number
hexToRgba(hex, alpha) ==
  LET pairs == HexPairs(hex)
  IN  "rgba(" \o ToString(ParseHexPair(pairs[1])) \o ", " \o ToString(ParseHexPair(pairs[2]))
      \o ", " \o ToString(ParseHexPair(pairs[3])) \o ", " \o alpha \o ")"

\* a variant that, given more than four colours, takes the last four
generateMultiColorBackgroundLastFour(tagColors) ==
  LET n == Len(tagColors)
      colorsOf(k) == [i \in 1..k |-> hexToRgba(tagColors[n - k + i], "0.75")]
  IN  IF n <= 1 THEN ""
      ELSE IF n = 2
      THEN "linear-gradient(to bottom, " \o colorsOf(2)[1] \o " 0%, " \o colorsOf(2)[1] \o " 50%, "
           \o colorsOf(2)[2] \o " 50%, " \o colorsOf(2)[2] \o " 100%)"
      ELSE IF n = 3
      THEN "conic-gradient(from 0deg, " \o colorsOf(3)[1] \o " 0deg 120deg, " \o colorsOf(3)[2]
           \o " 120deg 240deg, " \o colorsOf(3)[3] \o " 240deg 360deg)"
      ELSE "conic-gradient(from 0deg, " \o colorsOf(4)[1] \o " 0deg 90deg, " \o colorsOf(4)[2]
           \o " 90deg 180deg, " \o colorsOf(4)[3] \o " 180deg 270deg, " \o colorsOf(4)[4]
           \o " 270deg 360deg)"

\* generateMultiColorBackground
generateMultiColorBackground(tagColors) ==
  IF Len(tagColors) = 0 THEN ""
  ELSE IF Len(tagColors) = 1 THEN ""
  ELSE IF Len(tagColors) = 2
  THEN LET colorA == hexToRgba(tagColors[1], "0.75")
           colorB == hexToRgba(tagColors[2], "0.75")
       IN  "linear-gradient(to bottom, " \o colorA \o " 0%, " \o colorA \o " 50%, "
           \o colorB \o " 50%, " \o colorB \o " 100%)"
  ELSE IF Len(tagColors) = 3
  THEN LET colorA == hexToRgba(tagColors[1], "0.75")
           colorB == hexToRgba(tagColors[2], "0.75")
           colorC == hexToRgba(tagColors[3], "0.75")
       IN  "conic-gradient(from 0deg, " \o colorA \o " 0deg 120deg, " \o colorB
           \o " 120deg 240deg, " \o colorC \o " 240deg 360deg)"
  ELSE LET colorA == hexToRgba(tagColors[1], "0.75")
           colorB == hexToRgba(tagColors[2], "0.75")
           colorC == hexToRgba(tagColors[3], "0.75")
           colorD == hexToRgba(tagColors[4], "0.75")
       IN  "conic-gradient(from 0deg, " \o colorA \o " 0deg 90deg, " \o colorB
           \o " 90deg 180deg, " \o colorC \o " 180deg 270deg, " \o colorD \o " 270deg 360deg)"

(***************************************************************************)
(* The style writers                                                       *)
(***************************************************************************)
\* orca.state.plugins[pluginName].settings, and isDarkMode()
VARIABLES settings

Settings(enableTitleColor, enableInlineColor, useDomColor, dark) ==
  [enableTitleColor |-> enableTitleColor, enableInlineColor |-> enableInlineColor,
   useDomColor |-> useDomColor, dark |-> dark]
\* the defaults of the settings schema, in a light theme
DefaultSettings == Settings(TRUE, FALSE, FALSE, FALSE)

\* if (value) on a string or null
Truthy(v) == v # Null /\ v # ""

\* the DOM the writers work on
Dom(h, t, i, q) == [handle |-> h, title |-> t, inlineText |-> i, rafQueue |-> q]
CurrentDom == Dom(handle, title, inlineText, rafQueue)

\* the two callbacks the writers hand to requestAnimationFrame
IconCallback(m, iconValue) ==
  [kind |-> "icon", node |-> m, iconValue |-> iconValue, tagColors |-> <<>>]
MultiCallback(m, tagColors) ==
  [kind |-> "multi", node |-> m, iconValue |-> Null, tagColors |-> tagColors]

\* a variant of the writers' ownership test that takes every element below
WriterOwnsAll(n, m) == m \in Below(n)
\* the writers' ownership test on an element found below blockElement:
\* !parentBlock || parentBlock.getAttribute('data-id') === currentBlockId
WriterOwns(n, m) == m \in Below(n) /\ DataId(m) = DataId(n)

\* the elements of a NodeList below n that pass the test, in document order
OwnedBy(n) == FilterSeq(ContainerElements, {m \in Nodes : WriterOwns(n, m)})

\* the callbacks one writer call schedules: per handle, the icon callback
\* before the multi-colour callback
RECURSIVE ScheduledBy(_, _, _, _)
ScheduledBy(nodes, iconValue, multi, tagColors) ==
  IF nodes = <<>> THEN <<>>
  ELSE (IF Truthy(iconValue) /\ StartsWithTi(iconValue)
        THEN <<IconCallback(Head(nodes), iconValue)>> ELSE <<>>)
       \o (IF multi THEN <<MultiCallback(Head(nodes), tagColors)>> ELSE <<>>)
       \o ScheduledBy(Tail(nodes), iconValue, multi, tagColors)

\* the icon part both writers run at once: data-icon for an icon that is no
\* Tabler icon (a Tabler icon is left to the callback)
SetDataIcon(h, iconValue) ==
  IF Truthy(iconValue) /\ ~StartsWithTi(iconValue)
  THEN [h EXCEPT !.dataIcon = iconValue]
  ELSE h

\* a variant that sets the background colour whether or not the handle is collapsed
SingleBackgroundAlways(h, bgColorValue) ==
  [h EXCEPT !.backgroundColor = hexToRgba(bgColorValue, "0.45"), !.opacity = "1"]
\* the background part of the single-colour path (main.ts 1799-1807)
SingleBackground(h, bgColorValue) ==
  IF COLLAPSED \in h.classes
  THEN [h EXCEPT !.backgroundColor = hexToRgba(bgColorValue, "0.45")]
  ELSE [h EXCEPT !.backgroundColor = "", !.opacity = "1"]

\* applyBlockHandleColor
applyBlockHandleColor(d, n, displayColor, bgColorValue, iconValue, st) ==
  LET owned == {m \in Nodes : WriterOwns(n, m)}
  IN  Dom([m \in Nodes |->
             IF m \in owned
             THEN SingleBackground(
                    SetDataIcon([d.handle[m] EXCEPT !.color = displayColor], iconValue),
                    bgColorValue)
             ELSE d.handle[m]],
          [m \in Nodes |->
             IF m \in owned
             THEN IF st.enableTitleColor THEN displayColor ELSE ""
             ELSE d.title[m]],
          [m \in Nodes |->
             IF m \in owned
             THEN IF st.enableInlineColor THEN displayColor ELSE ""
             ELSE d.inlineText[m]],
          d.rafQueue \o ScheduledBy(OwnedBy(n), iconValue, FALSE, <<>>))

\* the background part of applyMultiTagHandleColor for one tag colour (main.ts 1622-1634)
MultiSingleBackground(h, tagColors) ==
  IF COLLAPSED \in h.classes
  THEN [h EXCEPT !.backgroundColor = hexToRgba(tagColors[1], "0.45"), !.backgroundImage = ""]
  ELSE [h EXCEPT !.backgroundColor = "", !.backgroundImage = "", !.opacity = "1"]

\* applyMultiTagHandleColor
applyMultiTagHandleColor(d, n, displayColor, bgColorValue, iconValue, tagColors, colorSource, st) ==
  LET owned == {m \in Nodes : WriterOwns(n, m)}
      multi == Len(tagColors) # 1
  IN  Dom([m \in Nodes |->
             IF m \in owned
             THEN LET h1 == IF Len(tagColors) > 1
                            THEN [d.handle[m] EXCEPT !.color = displayColor]
                            ELSE d.handle[m]
                      h2 == SetDataIcon(h1, iconValue)
                  IN  IF Len(tagColors) = 1 THEN MultiSingleBackground(h2, tagColors) ELSE h2
             ELSE d.handle[m]],
          [m \in Nodes |->
             IF m \in owned
             THEN IF colorSource = "tag" /\ st.enableTitleColor THEN displayColor
                  ELSE IF ~st.enableTitleColor THEN ""
                  ELSE d.title[m]
             ELSE d.title[m]],
          [m \in Nodes |->
             IF m \in owned
             THEN IF st.enableInlineColor /\ colorSource = "tag" THEN displayColor ELSE ""
             ELSE d.inlineText[m]],
          d.rafQueue \o ScheduledBy(OwnedBy(n), iconValue, multi, tagColors))

\* a variant of the multi-colour callback that toggles the collapsed class
RunMultiCallbackToggle(h, tagColors) ==
  [h EXCEPT !.classes = IF COLLAPSED \in @ THEN @ \ {COLLAPSED} ELSE @ \cup {COLLAPSED},
            !.backgroundImage = generateMultiColorBackground(tagColors),
            !.backgroundColor = "",
            !.opacity = "1"]
\* the callback of main.ts 1637-1654 on the handle
RunMultiCallback(h, tagColors) ==
  LET multiColorBg == generateMultiColorBackground(tagColors)
      h1 == [h EXCEPT !.classes = IF COLLAPSED \notin @ THEN @ \cup {COLLAPSED} ELSE @]
      h2 == IF multiColorBg # ""
            THEN [h1 EXCEPT !.backgroundImage = multiColorBg, !.backgroundColor = ""]
            ELSE [h1 EXCEPT !.backgroundColor = "", !.backgroundImage = ""]
  IN  [h2 EXCEPT !.opacity = "1"]

\* the callback of main.ts 1592-1611 / 1768-1787 on the handle
RunIconCallback(h, iconValue) ==
  [h EXCEPT !.classes = {cls \in @ : ~IsTablerClass(cls)} \cup IconClasses(iconValue)]

\* one callback run: the handle after it, and whether it changed the class
\* attribute (classList.add / remove of the icon classes always does; the
\* collapsed class is added only when missing)
RunCallback(d, cb) ==
  LET h == d.handle[cb.node]
      h2 == IF cb.kind = "icon" THEN RunIconCallback(h, cb.iconValue)
            ELSE RunMultiCallback(h, cb.tagColors)
  IN  [dom |-> [d EXCEPT !.handle[cb.node] = h2],
       classMutation |-> IF cb.kind = "icon" THEN TRUE ELSE COLLAPSED \notin h.classes]

\* cleanupBlockStyles
cleanupBlockStyles(d, n) ==
  LET owned == {m \in Below(n) : DataId(m) = DataId(n)}
  IN  Dom([m \in Nodes |->
             IF m \in owned
             THEN [d.handle[m] EXCEPT !.color = "", !.backgroundColor = "",
                                       !.backgroundImage = "", !.dataIcon = ""]
             ELSE d.handle[m]],
          [m \in Nodes |-> IF m \in owned THEN "" ELSE d.title[m]],
          [m \in Nodes |-> IF m \in owned THEN "" ELSE d.inlineText[m]],
          d.rafQueue)

\* the batch clear of one container element (main.ts 2447-2473): every handle
\* and every title below it
BatchClearElement(d, n) ==
  Dom([m \in Nodes |->
         IF m \in Below(n)
         THEN [d.handle[m] EXCEPT !.color = "", !.backgroundColor = "", !.opacity = ""]
         ELSE d.handle[m]],
      [m \in Nodes |-> IF m \in Below(n) THEN "" ELSE d.title[m]],
      d.inlineText,
      d.rafQueue)

RECURSIVE BatchClear(_, _)
BatchClear(d, elements) ==
  IF elements = <<>> THEN d
  ELSE BatchClear(BatchClearElement(d, Head(elements)), Tail(elements))

(***************************************************************************)
(* StyleChangeDetector and the UnifiedObserverManager callback             *)
(***************************************************************************)
VARIABLES
  observedElements,    \* UnifiedObserverManager.observedElements: per container, its config
  elementStyleStates,  \* StyleChangeDetector.elementStyleStates: per container, its state
  lastUpdateTime,      \* UnifiedObserverManager.lastUpdateTime
  isScrolling,         \* UnifiedObserverManager.isScrolling
  lastWrite,           \* history: per container, the writer last called on it since the pass began
  matchTicks,          \* history: per container, the matching checks in a row since the pass began
  wrote                \* history: the last step called a writer from the observer

observerVars == <<observedElements, elementStyleStates, lastUpdateTime, isScrolling,
                  lastWrite, matchTicks, wrote>>

MAX_CHANGE_COUNT == 3
UPDATE_THROTTLE == 50

\* what getElementAppliedStyleState reads; also the shape of expectedStyles
Observed(color, backgroundColor, backgroundImage, opacity, dataIcon, hasBoldClass) ==
  [color |-> color, backgroundColor |-> backgroundColor, backgroundImage |-> backgroundImage,
   opacity |-> opacity, dataIcon |-> dataIcon, hasBoldClass |-> hasBoldClass]
EmptyObserved == Observed("", "", "", "", "", FALSE)

\* an entry of observedElements
Config(displayColor, bgColorValue, iconValue, tagColors, colorSource) ==
  [displayColor |-> displayColor, bgColorValue |-> bgColorValue, iconValue |-> iconValue,
   tagColors |-> tagColors, colorSource |-> colorSource]

\* the plugin and the DOM together, as the callbacks see and change them
World(d, oe, ess, lut, lw, mt, wr) ==
  [dom |-> d, observedElements |-> oe, elementStyleStates |-> ess, lastUpdateTime |-> lut,
   lastWrite |-> lw, matchTicks |-> mt, wrote |-> wr,
   \* history: per container, the writer calls the observer made on it in this callback
   writes |-> [n \in Nodes |-> 0]]
CurrentWorld ==
  World(CurrentDom, observedElements, elementStyleStates, lastUpdateTime,
        lastWrite, matchTicks, FALSE)

\* a variant that records the snapshot as already stable
recordExpectedStylesStable(ess, n, expectedStyles, applied) ==
  [ess EXCEPT ![n] = [expectedStyles |->
                        [expectedStyles EXCEPT !.hasBoldClass = applied.hasBoldClass],
                      changeCount |-> MAX_CHANGE_COUNT,
                      isStable |-> TRUE]]

\* recordExpectedStyles: lastChangeTime and appliedStyles are written too; the
\* first is read only where both outcomes return false, the second never
recordExpectedStyles(ess, n, expectedStyles, applied) ==
  [ess EXCEPT ![n] = [expectedStyles |->
                        [expectedStyles EXCEPT !.hasBoldClass = applied.hasBoldClass],
                      changeCount |-> 0,
                      isStable |-> FALSE]]

\* needsStyleUpdate: what it returns, the detector states after it, and
\* whether it took the stylesMatch branch; applied is what the element reads as
needsStyleUpdate(ess, n, applied, scrolling) ==
  IF scrolling THEN [ret |-> FALSE, states |-> ess, matched |-> FALSE]
  ELSE IF ess[n] = NoValue
  THEN [ret |-> TRUE, states |-> ess, matched |-> FALSE]
  ELSE IF applied.hasBoldClass
  THEN [ret |-> FALSE, states |-> ess, matched |-> FALSE]
  ELSE IF ess[n].expectedStyles # applied
  THEN [ret |-> TRUE,
        states |-> [ess EXCEPT ![n].changeCount = 0, ![n].isStable = FALSE],
        matched |-> FALSE]
  ELSE LET count == ess[n].changeCount + 1
           stable == ess[n].isStable \/ count >= MAX_CHANGE_COUNT
       IN  [ret |-> ~stable,
            states |-> [ess EXCEPT ![n].changeCount = count, ![n].isStable = stable],
            matched |-> TRUE]

\* forceResetElementDetection
forceResetElementDetection(ess, n) == [ess EXCEPT ![n] = NoValue]

\* a mutation record: a class change on the handle of container node, or a
\* child list change below it
ClassMutation(n) == [type |-> "attributes", node |-> n, added |-> FALSE]
ChildListMutation(n, added) == [type |-> "childList", node |-> n, added |-> added]

\* classList.toString().includes(word), for the classes a handle has here
ClassListIncludes(classes, word) == word = COLLAPSED /\ COLLAPSED \in classes
ScrollWords == {"scrolling", "scroll", "transform", "transition"}

\* the filter of main.ts 925-944
Significant(w, mutation) ==
  IF mutation.type = "attributes"
  THEN ~\E word \in ScrollWords : ClassListIncludes(w.dom.handle[mutation.node].classes, word)
  ELSE TRUE

\* a variant that takes the outermost container above the target instead of
\* the closest one
CollectOutermost(w, mutation, acc) ==
  LET node == ContainerElements[1] IN
  IF ~Significant(w, mutation) THEN acc
  ELSE IF w.observedElements[node] = NoValue THEN acc
  ELSE [states |-> forceResetElementDetection(acc.states, node),
        elements |-> IF node \in SeqToSet(acc.elements) THEN acc.elements
                     ELSE Append(acc.elements, node)]

\* the forEach of main.ts 951-983 on one record: the detector states and the
\* elements to update after it
Collect(w, mutation, acc) ==
  IF ~Significant(w, mutation) THEN acc
  ELSE IF w.observedElements[mutation.node] = NoValue THEN acc
  ELSE IF mutation.type = "attributes"
  THEN LET isImportantChange ==
             \/ ClassListIncludes(w.dom.handle[mutation.node].classes, COLLAPSED)
             \/ ClassListIncludes(w.dom.handle[mutation.node].classes,
                                  "orca-block-handle-expanded")
       IN  [states |-> IF isImportantChange
                       THEN forceResetElementDetection(acc.states, mutation.node)
                       ELSE acc.states,
            elements |-> IF mutation.node \in SeqToSet(acc.elements) THEN acc.elements
                         ELSE Append(acc.elements, mutation.node)]
  ELSE IF mutation.added
  THEN [states |-> forceResetElementDetection(acc.states, mutation.node),
        elements |-> IF mutation.node \in SeqToSet(acc.elements) THEN acc.elements
                     ELSE Append(acc.elements, mutation.node)]
  ELSE acc

RECURSIVE CollectAll(_, _, _)
CollectAll(w, mutations, acc) ==
  IF mutations = <<>> THEN acc
  ELSE CollectAll(w, Tail(mutations), Collect(w, Head(mutations), acc))

\* the writer call of main.ts 1004-1010 / 2555-2559
CallWriter(d, n, config, st) ==
  IF WriterFor(config.tagColors) = MultiWriter
  THEN applyMultiTagHandleColor(d, n, config.displayColor, config.bgColorValue,
                                config.iconValue, config.tagColors,
                                IF config.colorSource = Null THEN "tag" ELSE config.colorSource,
                                st)
  ELSE applyBlockHandleColor(d, n, config.displayColor, config.bgColorValue,
                             config.iconValue, st)

\* what the observer records after its write (main.ts 1013-1019)
ExpectedOf(config) ==
  Observed(config.displayColor, config.bgColorValue, "", "1",
           IF Truthy(config.iconValue) THEN config.iconValue ELSE "", FALSE)

\* the body of elementsToUpdate.forEach for one element (main.ts 994-1023)
UpdateElement(w, n, applied, scrolling, st) ==
  LET check == needsStyleUpdate(w.elementStyleStates, n, applied[n], scrolling)
      ticks == IF check.matched THEN Min(w.matchTicks[n] + 1, MAX_CHANGE_COUNT) ELSE 0
      config == w.observedElements[n]
  IN  IF ~check.ret \/ config = NoValue
      THEN [w EXCEPT !.elementStyleStates = check.states, !.matchTicks[n] = ticks]
      ELSE [w EXCEPT !.dom = CallWriter(w.dom, n, config, st),
                     !.elementStyleStates =
                        recordExpectedStyles(check.states, n, ExpectedOf(config), applied[n]),
                     !.lastWrite[n] = WriterFor(config.tagColors),
                     !.matchTicks[n] = ticks,
                     !.wrote = TRUE,
                     !.writes[n] = @ + 1]

RECURSIVE UpdateAll(_, _, _, _, _)
UpdateAll(w, elements, applied, scrolling, st) ==
  IF elements = <<>> THEN w
  ELSE UpdateAll(UpdateElement(w, Head(elements), applied, scrolling, st),
                 Tail(elements), applied, scrolling, st)

\* the MutationObserver callback (main.ts 914-1024) on a batch of records at
\* time t; applied is what each container element reads as
ObserverCallback(w, mutations, t, applied, scrolling, st) ==
  IF scrolling THEN w
  ELSE LET got == CollectAll(w, mutations, [states |-> w.elementStyleStates, elements |-> <<>>])
           w1 == [w EXCEPT !.elementStyleStates = got.states]
       IN  IF \A i \in 1..Len(mutations) : ~Significant(w, mutations[i]) THEN w
           ELSE IF t - w.lastUpdateTime < UPDATE_THROTTLE THEN w1
           ELSE UpdateAll([w1 EXCEPT !.lastUpdateTime = t], got.elements,
                          applied, scrolling, st)

(***************************************************************************)
(* The backend, the sync pass, the frames and the host                     *)
(***************************************************************************)
VARIABLES
  eKind,    \* the backend: per container, what its entity and its tags carry
  pc,       \* "idle", or "resolving" while a pass awaits its container promises
  results,  \* per container, what its promise of the latest pass resolved to
  failing   \* the block ids for which orca.invokeBackend("get-block", id) rejects

passVars == <<eKind, pc, results>>

\* the host and the passes wait while more than this many callbacks are queued
MaxQueue == 2

\* what an entity and its tags carry, as a backend case
Kinds == {"plain", "own", "icon", "tag1", "tag2"}
KindCase(kind) ==
  LET case(k, ownKind, tagKinds) ==
        [k |-> k, ownKind |-> ownKind,
         tagKinds |-> [i \in 1..MaxRefs |-> IF i <= Len(tagKinds) THEN tagKinds[i] ELSE "none"],
         withOther |-> FALSE, withOrder |-> FALSE]
  IN  CASE kind = "plain" -> case(0, "none", <<>>)
        [] kind = "own" -> case(0, "both", <<>>)
        [] kind = "icon" -> case(0, "icon", <<>>)
        [] kind = "tag1" -> case(1, "none", <<"both">>)
        [] kind = "tag2" -> case(2, "none", <<"both", "color">>)

\* the blocks of the backend
Blocks(kinds) ==
  BackendOf(DataId("n1"), KindCase(kinds["n1"])) @@ BackendOf(DataId("n2"), KindCase(kinds["n2"]))

\* reprMainElement.querySelector('.orca-tags') with an .orca-tag in it: the
\* host shows a marker per tag of the entity
HasTags(kinds, n) == KindCase(kinds[n]).k > 0

\* getBlockStyleProperties(blockId) at time t: the value it returns
StylePropertiesOf(cache, t, blocks, blockId) ==
  LET cached == getBlockProperties(cache, t, blockId).ret
  IN  IF cached # NoValue THEN cached ELSE DecodeStyleProps(blocks[blockId])

\* getBlockStyleProperties(blockId) at time t: the cache it leaves
CacheAfterFetch(cache, t, blocks, blockId) ==
  LET got == getBlockProperties(cache, t, blockId)
  IN  IF got.ret # NoValue THEN got.cache
      ELSE setBlockProperties(got.cache, t, blockId, DecodeStyleProps(blocks[blockId]))

RECURSIVE CacheAfterFetches(_, _, _, _)
CacheAfterFetches(cache, t, blocks, blockIds) ==
  IF blockIds = <<>> THEN cache
  ELSE CacheAfterFetches(CacheAfterFetch(cache, t, blocks, Head(blockIds)), t, blocks,
                         Tail(blockIds))

Pending == [pending |-> TRUE]

\* a variant in which one rejected call makes every call of the pass reject
AnsweredNoneOnFault(blocks, rejected) ==
  [id \in DOMAIN blocks |-> IF rejected # {} THEN NoValue ELSE blocks[id]]
\* what await orca.invokeBackend("get-block", id) gives the caller's try block
\* for every id: the block, or NoValue where the call rejects and the catch
\* of the caller takes over (main.ts 1998-2003, 2276-2278, 2319-2321)
Answered(blocks, rejected) ==
  [id \in DOMAIN blocks |-> IF id \in rejected THEN NoValue ELSE blocks[id]]

\* a variant that starts the pass without clearing the registry
PassStartKeeps ==
  /\ pc = "idle"
  /\ Len(rafQueue) <= MaxQueue
  /\ pc' = "resolving"
  /\ results' = [n \in Nodes |-> Pending]
  /\ elementStyleStates' = [n \in Nodes |-> NoValue]
  /\ lastWrite' = [n \in Nodes |-> Null]
  /\ matchTicks' = [n \in Nodes |-> 0]
  /\ wrote' = FALSE
  /\ UNCHANGED <<eKind, domVars, settings, lastUpdateTime, isScrolling, observedElements,
                 blockPropertiesCache, now, advances, stored, lastRead>>

\* readAllPanelsContainerBlocks up to the first await of processPanelBlocks:
\* the registry and the detector are cleared, one promise per container starts
PassStart ==
  /\ pc = "idle"
  /\ Len(rafQueue) <= MaxQueue
  /\ pc' = "resolving"
  /\ results' = [n \in Nodes |-> Pending]
  /\ observedElements' = [n \in Nodes |-> NoValue]
  /\ elementStyleStates' = [n \in Nodes |-> NoValue]
  /\ lastWrite' = [n \in Nodes |-> Null]
  /\ matchTicks' = [n \in Nodes |-> 0]
  /\ wrote' = FALSE
  /\ UNCHANGED <<eKind, domVars, settings, lastUpdateTime, isScrolling,
                 blockPropertiesCache, now, advances, stored, lastRead>>

\* the promise of container n runs to its end on what the backend answers
ResolveStep(n) ==
  /\ pc = "resolving"
  /\ results[n] = Pending
  /\ LET blocks == Answered(Blocks(eKind), failing)
         P == [id \in DOMAIN blocks |-> StylePropertiesOf(blockPropertiesCache, now, blocks, id)]
         out == ResolveContainer(DataId(n), HasTags(eKind, n), blocks[DataId(n)], P)
         d == IF out.cleanup THEN cleanupBlockStyles(CurrentDom, n) ELSE CurrentDom
     IN  /\ results' = [results EXCEPT ![n] = out]
         /\ blockPropertiesCache' = CacheAfterFetches(blockPropertiesCache, now, blocks, out.fetched)
         /\ handle' = d.handle
         /\ title' = d.title
         /\ inlineText' = d.inlineText
  /\ wrote' = FALSE
  /\ UNCHANGED <<eKind, pc, cstyle, rafQueue, settings, observedElements,
                 elementStyleStates, lastUpdateTime, isScrolling, lastWrite, matchTicks,
                 now, advances, stored, lastRead>>

\* the config the apply stage registers for an entry of processedBlocks
ConfigOf(block) ==
  Config(block.displayColor, block.bgColorValue, block.iconValue, block.tagColors,
         block.colorSource)

\* the apply stage (main.ts 2550-2564) over the container promises' results
RECURSIVE ApplyStage(_, _, _)
ApplyStage(w, elements, st) ==
  IF elements = <<>> THEN w
  ELSE LET n == Head(elements)
           block == IF results[n].result = NoValue THEN NoValue
                    ELSE ProcessBlock(results[n].result, st.dark /\ st.useDomColor)
       IN  IF block = NoValue THEN ApplyStage(w, Tail(elements), st)
           ELSE ApplyStage(
                  [w EXCEPT !.dom = CallWriter(w.dom, n, ConfigOf(block), st),
                            !.observedElements[n] = ConfigOf(block),
                            !.lastWrite[n] = WriterFor(block.tagColors)],
                  Tail(elements), st)

\* every variable the callbacks change takes its value from the world w
Becomes(w) ==
  /\ handle' = w.dom.handle
  /\ title' = w.dom.title
  /\ inlineText' = w.dom.inlineText
  /\ rafQueue' = w.dom.rafQueue
  /\ observedElements' = w.observedElements
  /\ elementStyleStates' = w.elementStyleStates
  /\ lastUpdateTime' = w.lastUpdateTime
  /\ lastWrite' = w.lastWrite
  /\ matchTicks' = w.matchTicks
  /\ wrote' = w.wrote

\* processPanelBlocks after Promise.all: the batch clear, then the apply stage
PassFinish ==
  /\ pc = "resolving"
  /\ \A n \in Nodes : results[n] # Pending
  /\ pc' = "idle"
  /\ LET cleared == [CurrentWorld EXCEPT !.dom = BatchClear(@, ContainerElements)]
     IN  \E w \in {ApplyStage(cleared, ContainerElements, settings)} : Becomes(w)
  /\ UNCHANGED <<eKind, results, cstyle, settings, isScrolling,
                 blockPropertiesCache, now, advances, stored, lastRead>>

\* an animation frame: the queued callbacks run in order, each followed by
\* the observer callback for the class change it made; what these schedule
\* waits for the next frame
RECURSIVE RunFrame(_, _, _, _, _, _)
RunFrame(w, callbacks, t, applied, scrolling, st) ==
  IF callbacks = <<>> THEN w
  ELSE LET ran == RunCallback(w.dom, Head(callbacks))
           w1 == [w EXCEPT !.dom = ran.dom]
           w2 == IF ran.classMutation
                 THEN ObserverCallback(w1, <<ClassMutation(Head(callbacks).node)>>, t,
                                       applied, scrolling, st)
                 ELSE w1
       IN  RunFrame(w2, Tail(callbacks), t, applied, scrolling, st)

Frame ==
  /\ rafQueue # <<>>
  /\ \E w \in {RunFrame([CurrentWorld EXCEPT !.dom.rafQueue = <<>>], rafQueue, now, cstyle,
                       isScrolling, settings)} : Becomes(w)
  /\ UNCHANGED <<passVars, cstyle, settings, isScrolling,
                 blockPropertiesCache, now, advances, stored, lastRead>>

\* the host collapses or expands the block of container n
HostToggleCollapsed(n) ==
  /\ Len(rafQueue) <= MaxQueue
  /\ LET toggled == [CurrentWorld EXCEPT !.dom.handle[n].classes =
                       IF COLLAPSED \in @ THEN @ \ {COLLAPSED} ELSE @ \cup {COLLAPSED}]
     IN  \E w \in {ObserverCallback(toggled, <<ClassMutation(n)>>, now, cstyle, isScrolling,
                                     settings)} : Becomes(w)
  /\ UNCHANGED <<passVars, cstyle, settings, isScrolling,
                 blockPropertiesCache, now, advances, stored, lastRead>>

\* the host adds (or only removes) child nodes below container n
HostChildList(n, added) ==
  /\ Len(rafQueue) <= MaxQueue
  /\ \E w \in {ObserverCallback(CurrentWorld, <<ChildListMutation(n, added)>>, now, cstyle,
                               isScrolling, settings)} : Becomes(w)
  /\ UNCHANGED <<passVars, cstyle, settings, isScrolling,
                 blockPropertiesCache, now, advances, stored, lastRead>>

\* the host gives the container element of n an inline style of its own
HostSetContainerStyle(n, v) ==
  /\ cstyle[n] # v
  /\ cstyle' = [cstyle EXCEPT ![n] = v]
  /\ wrote' = FALSE
  /\ UNCHANGED <<passVars, handle, title, inlineText, rafQueue, settings, observedElements,
                 elementStyleStates, lastUpdateTime, isScrolling, lastWrite, matchTicks,
                 blockPropertiesCache, now, advances, stored, lastRead>>

\* the user edits the entity of container n or its tags
BackendEdit(n, kind) ==
  /\ eKind[n] # kind
  /\ eKind' = [eKind EXCEPT ![n] = kind]
  /\ wrote' = FALSE
  /\ UNCHANGED <<pc, results, domVars, settings, observedElements,
                 elementStyleStates, lastUpdateTime, isScrolling, lastWrite, matchTicks,
                 blockPropertiesCache, now, advances, stored, lastRead>>

\* time is kept relative to the present: performance.now() reads as now, and
\* when d ms pass every stored time stamp moves d back, never further than
\* just past the threshold it is compared against
Shift(t, d, floor) == IF t - d < floor THEN floor ELSE t - d

\* the cache's time stamps are kept to the grain of its TTL: a step shorter
\* than the TTL leaves an entry as fresh or as stale as it was
ShiftCache(cache, d) ==
  IF d < CACHE_TTL THEN cache
  ELSE [b \in DOMAIN cache |->
          [cache[b] EXCEPT !.timestamp = Shift(@, d, now - (CACHE_TTL + 1))]]

Elapse(d) ==
  /\ lastUpdateTime' = Shift(lastUpdateTime, d, now - UPDATE_THROTTLE)
  /\ blockPropertiesCache' = ShiftCache(blockPropertiesCache, d)
  /\ wrote' = FALSE
  /\ UNCHANGED <<passVars, domVars, settings, observedElements, elementStyleStates,
                 isScrolling, lastWrite, matchTicks, now, advances, stored, lastRead>>

(***************************************************************************)
(* The plugin in one panel                                                 *)
(***************************************************************************)
\* the settings a run is made under: the defaults, or title colour off with
\* inline colour and DOM colour on in a dark theme
SettingsChoices == {DefaultSettings, Settings(FALSE, TRUE, TRUE, TRUE)}

\* what the entity of each container may carry
KindsOf(n) == IF n = "n1" THEN {"plain", "icon", "tag1", "tag2"} ELSE {"own"}

\* the time steps taken: the observer's throttle window, and past the cache's TTL
ElapseSteps == {UPDATE_THROTTLE, CACHE_TTL + 1}

\* the DOM, the observer and the pass as load() leaves them, the observer
\* callback not yet run since the page's start
PluginInit ==
  /\ handle = [n \in Nodes |-> CleanHandle]
  /\ title = [n \in Nodes |-> ""]
  /\ inlineText = [n \in Nodes |-> ""]
  /\ cstyle = [n \in Nodes |-> EmptyObserved]
  /\ rafQueue = <<>>
  /\ observedElements = [n \in Nodes |-> NoValue]
  /\ elementStyleStates = [n \in Nodes |-> NoValue]
  /\ lastUpdateTime = 0 - UPDATE_THROTTLE
  /\ isScrolling = FALSE
  /\ lastWrite = [n \in Nodes |-> Null]
  /\ matchTicks = [n \in Nodes |-> 0]
  /\ wrote = FALSE
  /\ pc = "idle"
  /\ results = [n \in Nodes |-> Pending]

MainInit ==
  /\ PluginInit
  /\ settings \in SettingsChoices
  /\ eKind \in {k \in [Nodes -> Kinds] : \A n \in Nodes : k[n] \in KindsOf(n)}

\* the values the host gives a container's own inline style: none, or the
\* very values the detector expects
HostStyles(n) ==
  {EmptyObserved} \cup
  (IF observedElements[n] = NoValue THEN {} ELSE {ExpectedOf(observedElements[n])})

\* the containers the host collapses, and those whose entity the user edits
Collapsible == {"n1"}
Editable == {"n1"}

(***************************************************************************)
(* The writers and the clears under any sequence of calls                  *)
(***************************************************************************)
\* a resolved style as the writers are given it, and the writer it goes to
Style(multi, iconValue, tagColors, colorSource) ==
  [multi |-> multi, displayColor |-> tagColors[1], bgColorValue |-> tagColors[1],
   iconValue |-> iconValue, tagColors |-> tagColors, colorSource |-> colorSource]

\* a Tabler icon, an emoji icon or none
StyleIcons == {Null, "ti ti-star", "emoji-star"}

\* the styles applied: one colour on the single-colour path, one colour (of
\* the entity or of a tag) or two or three tag colours on the multi-tag path
Styles ==
  {Style(FALSE, icon, <<"#111111">>, "block") : icon \in StyleIcons}
  \cup {Style(TRUE, icon, <<"#111111">>, source) :
          icon \in StyleIcons, source \in {"block", "tag"}}
  \cup {Style(TRUE, icon, tagColors, "tag") :
          icon \in StyleIcons,
          tagColors \in {<<"#111111", "#222222">>, <<"#111111", "#222222", "#333333">>}}

\* the styles the nested container is given: a single colour with an emoji
\* icon, or two tag colours with a Tabler icon
NestedStyles ==
  {Style(FALSE, "emoji-star", <<"#111111">>, "block"),
   Style(TRUE, "ti ti-star", <<"#111111", "#222222">>, "tag")}
StylesOf(n) == IF n = "n1" THEN Styles ELSE NestedStyles

\* one writer call on the container n
ApplyStyle(d, n, s, st) ==
  IF s.multi
  THEN applyMultiTagHandleColor(d, n, s.displayColor, s.bgColorValue, s.iconValue,
                                s.tagColors, s.colorSource, st)
  ELSE applyBlockHandleColor(d, n, s.displayColor, s.bgColorValue, s.iconValue, st)

\* the frame after it: the queued callbacks run in order
RECURSIVE Settle(_)
Settle(d) ==
  IF d.rafQueue = <<>> THEN d
  ELSE Settle(RunCallback([d EXCEPT !.rafQueue = Tail(@)], Head(d.rafQueue)).dom)

\* the DOM becomes d; the observer, with nothing registered, stays as it is
DomBecomes(d) ==
  /\ handle' = d.handle
  /\ title' = d.title
  /\ inlineText' = d.inlineText
  /\ rafQueue' = d.rafQueue
  /\ UNCHANGED <<cstyle, settings, observerVars, passVars, cacheVars>>

\* a writer is called on container n once the callbacks of the call before ran
WriteAct(n, s) ==
  /\ rafQueue = <<>>
  /\ \E d \in {ApplyStyle(CurrentDom, n, s, settings)} : DomBecomes(d)

\* the frame: every queued callback runs
SettleAct ==
  /\ rafQueue # <<>>
  /\ \E d \in {Settle(CurrentDom)} : DomBecomes(d)

CleanupAct(n) == \E d \in {cleanupBlockStyles(CurrentDom, n)} : DomBecomes(d)

BatchClearAct(n) == \E d \in {BatchClearElement(CurrentDom, n)} : DomBecomes(d)

\* the host collapses or expands the handle of container n
CollapseAct(n) ==
  \E d \in {[CurrentDom EXCEPT !.handle[n].classes =
               IF COLLAPSED \in @ THEN @ \ {COLLAPSED} ELSE @ \cup {COLLAPSED}]} : DomBecomes(d)

(***************************************************************************)
(* DOMCache and the document it queries                                    *)
(***************************************************************************)
VARIABLES
  panelElementsCache,      \* DOMCache.panelElementsCache: Map<panelId, Element | null>
  containerElementsCache,  \* DOMCache.containerElementsCache: Map<panelId + "_containers", NodeList>
  lastPanelStructureHash,  \* DOMCache.lastPanelStructureHash
  panels,                  \* orca.state.panels: the view panels, in the order collectViewPanels gives
  docPanels,               \* the document: the panel elements attached to it
  docChildren,             \* the document: the container elements that are inside their panel element
  domRet                   \* history: the last DOMCache query, what it returned, the document unchanged since

domCacheVars == <<panelElementsCache, containerElementsCache, lastPanelStructureHash>>
documentVars == <<panels, docPanels, docChildren>>

\* panel ids, the special panels included
PanelIds == {"p1", "p2"}
SpecialPanels == <<"_globalSearch", "_reference">>
\* the elements the host renders for the panels (p1 is rendered anew as P1b)
\* and the container elements it puts in them, in document order
PanelElements == <<"P1a", "P1b", "P2a">>
Containers == <<"c1", "c2", "c3">>
PanelIdOf(pe) == IF pe \in {"P1a", "P1b"} THEN "p1" ELSE "p2"
ParentOf(c) == CASE c = "c1" -> "P1a" [] c = "c2" -> "P1b" [] c = "c3" -> "P2a"

Doc(dp, dc) == [panels |-> dp, children |-> dc]
CurrentDoc == Doc(docPanels, docChildren)

\* document.contains(element)
DocumentContains(doc, e) ==
  IF e \in SeqToSet(PanelElements) THEN e \in doc.panels
  ELSE e \in doc.children /\ ParentOf(e) \in doc.panels

\* document.querySelector('[data-panel-id="..."]'): the first such element, or null
QueryPanel(doc, panelId) ==
  LET found == FilterSeq(PanelElements, {pe \in doc.panels : PanelIdOf(pe) = panelId})
  IN  IF found = <<>> THEN Null ELSE found[1]

\* document.querySelectorAll('.orca-block.orca-container'): a static list
QueryAllContainers(doc) ==
  FilterSeq(Containers, {c \in doc.children : ParentOf(c) \in doc.panels})

\* panelElement.querySelectorAll('.orca-block.orca-container'): a static list
QueryContainersOf(doc, pe) ==
  FilterSeq(Containers, {c \in doc.children : ParentOf(c) = pe})

DomCache(pec, cec, hash) ==
  [panelElementsCache |-> pec, containerElementsCache |-> cec, lastPanelStructureHash |-> hash]
CurrentDomCache == DomCache(panelElementsCache, containerElementsCache, lastPanelStructureHash)
EmptyDomCache == DomCache(<<>>, <<>>, "")

\* DOMCache.getPanelElement: the element returned (Null for null) and the cache it leaves
getPanelElement(dc, doc, panelId) ==
  LET cached == IF panelId \in DOMAIN dc.panelElementsCache
                THEN dc.panelElementsCache[panelId] ELSE Null
  IN  IF panelId \in DOMAIN dc.panelElementsCache /\ cached # Null
         /\ DocumentContains(doc, cached)
      THEN [ret |-> cached, cache |-> dc]
      ELSE LET element == QueryPanel(doc, panelId)
           IN  [ret |-> element,
                cache |-> [dc EXCEPT !.panelElementsCache = MapSet(@, panelId, element)]]

\* what getContainerElements queries when the panel has no element (main.ts 613-617)
ContainersOfMissingPanel(doc) == QueryAllContainers(doc)

\* DOMCache.getContainerElements: the list returned and the cache it leaves
getContainerElements(dc, doc, panelId) ==
  LET cacheKey == panelId \o "_containers"
      hit == cacheKey \in DOMAIN dc.containerElementsCache
  IN  IF hit /\ Len(dc.containerElementsCache[cacheKey]) > 0
      THEN [ret |-> dc.containerElementsCache[cacheKey], cache |-> dc]
      ELSE LET dc1 == IF hit
                      THEN [dc EXCEPT !.containerElementsCache = MapDelete(@, cacheKey)]
                      ELSE dc
               got == getPanelElement(dc1, doc, panelId)
               elements == IF got.ret = Null THEN ContainersOfMissingPanel(doc)
                           ELSE QueryContainersOf(doc, got.ret)
           IN  [ret |-> elements,
                cache |-> [got.cache EXCEPT !.containerElementsCache =
                                              MapSet(@, cacheKey, elements)]]

\* DOMCache.clearPanelCache
clearPanelCache(dc, panelId) ==
  [dc EXCEPT !.panelElementsCache =
               IF panelId \in DOMAIN @ THEN MapDelete(@, panelId) ELSE @,
             !.containerElementsCache =
               IF panelId \o "_containers" \in DOMAIN @
               THEN MapDelete(@, panelId \o "_containers") ELSE @]

\* DOMCache.clearAllCache
clearAllDomCache(dc) == EmptyDomCache

\* DOMCache.cleanupInvalidReferences
cleanupInvalidReferences(dc, doc) ==
  LET deadPanels == {p \in DOMAIN dc.panelElementsCache :
                       /\ dc.panelElementsCache[p] # Null
                       /\ ~DocumentContains(doc, dc.panelElementsCache[p])}
      deadLists == {k \in DOMAIN dc.containerElementsCache :
                      /\ Len(dc.containerElementsCache[k]) > 0
                      /\ ~DocumentContains(doc, dc.containerElementsCache[k][1])}
  IN  [dc EXCEPT !.panelElementsCache = [p \in DOMAIN @ \ deadPanels |-> @[p]],
                 !.containerElementsCache = [k \in DOMAIN @ \ deadLists |-> @[k]]]

\* a view panel of orca.state.panels
ViewPanel(id, view, blockId) == [id |-> id, view |-> view, blockId |-> blockId]

\* viewPanels.map(p => `${p.id}-${p.view}-${blockId || date || ''}`).join('|')
RECURSIVE JoinPanels(_)
JoinPanels(viewPanels) ==
  IF viewPanels = <<>> THEN ""
  ELSE LET p == Head(viewPanels)
           one == p.id \o "-" \o p.view \o "-" \o p.blockId
       IN  IF Tail(viewPanels) = <<>> THEN one ELSE one \o "|" \o JoinPanels(Tail(viewPanels))
generatePanelStructureHash(viewPanels) == JoinPanels(viewPanels)

\* a variant of checkPanelStructureChange that never sees a change
checkPanelStructureChangeNever(dc, viewPanels) == [ret |-> FALSE, cache |-> dc]

\* DOMCache.checkPanelStructureChange: what it returns and the cache it leaves
checkPanelStructureChange(dc, viewPanels) ==
  LET currentHash == generatePanelStructureHash(viewPanels)
  IN  IF currentHash # dc.lastPanelStructureHash
      THEN [ret |-> TRUE, cache |-> [dc EXCEPT !.lastPanelStructureHash = currentHash]]
      ELSE [ret |-> FALSE, cache |-> dc]

(***************************************************************************)
(* DOMCache under any sequence of queries while the host changes the tree  *)
(***************************************************************************)
NoRet == [op |-> "none", panelId |-> "", nodes |-> <<>>]

DomCacheBecomes(dc) ==
  /\ panelElementsCache' = dc.panelElementsCache
  /\ containerElementsCache' = dc.containerElementsCache
  /\ lastPanelStructureHash' = dc.lastPanelStructureHash

DocumentInit ==
  /\ panels = <<ViewPanel("p1", "block", "1")>>
  /\ docPanels = {}
  /\ docChildren = {}

DomCacheInit ==
  /\ panelElementsCache = <<>>
  /\ containerElementsCache = <<>>
  /\ lastPanelStructureHash = ""
  /\ domRet = NoRet

GetPanelElementAct(panelId) ==
  LET got == getPanelElement(CurrentDomCache, CurrentDoc, panelId)
  IN  /\ DomCacheBecomes(got.cache)
      /\ domRet' = [op |-> "panel", panelId |-> panelId,
                    nodes |-> IF got.ret = Null THEN <<>> ELSE <<got.ret>>]
      /\ UNCHANGED documentVars

GetContainerElementsAct(panelId) ==
  LET got == getContainerElements(CurrentDomCache, CurrentDoc, panelId)
  IN  /\ DomCacheBecomes(got.cache)
      /\ domRet' = [op |-> "containers", panelId |-> panelId, nodes |-> got.ret]
      /\ UNCHANGED documentVars

ClearPanelCacheAct(panelId) ==
  /\ DomCacheBecomes(clearPanelCache(CurrentDomCache, panelId))
  /\ UNCHANGED <<documentVars, domRet>>

CleanupInvalidReferencesAct ==
  /\ DomCacheBecomes(cleanupInvalidReferences(CurrentDomCache, CurrentDoc))
  /\ UNCHANGED <<documentVars, domRet>>

\* the host attaches the element of a panel that has none in the document
HostAttachPanel(pe) ==
  /\ QueryPanel(CurrentDoc, PanelIdOf(pe)) = Null
  /\ docPanels' = docPanels \cup {pe}
  /\ domRet' = NoRet
  /\ UNCHANGED <<domCacheVars, panels, docChildren>>

\* the host removes a panel element, with what is in it
HostDetachPanel(pe) ==
  /\ pe \in docPanels
  /\ docPanels' = docPanels \ {pe}
  /\ domRet' = NoRet
  /\ UNCHANGED <<domCacheVars, panels, docChildren>>

\* the host renders or removes a container element inside its panel element
HostToggleContainer(c) ==
  /\ docChildren' = IF c \in docChildren THEN docChildren \ {c} ELSE docChildren \cup {c}
  /\ domRet' = NoRet
  /\ UNCHANGED <<domCacheVars, panels, docPanels>>

\* C11: every node getPanelElement or getContainerElements returns is attached
\* to the document at the time it is returned.
C11_ReturnsAttached ==
  \A i \in 1..Len(domRet.nodes) : DocumentContains(CurrentDoc, domRet.nodes[i])

\* C12: the nodes getContainerElements(panelId) returns are containers inside
\* the element the panel has in the document, and none when it has no element.
C12_OnlyOwnPanel ==
  domRet.op = "containers" =>
    LET pe == QueryPanel(CurrentDoc, domRet.panelId)
    IN  IF pe = Null THEN domRet.nodes = <<>>
        ELSE \A i \in 1..Len(domRet.nodes) :
               /\ ParentOf(domRet.nodes[i]) = pe
               /\ domRet.nodes[i] \in docChildren

(***************************************************************************)
(* The scheduler: load, unload, the timers and the passes they start       *)
(***************************************************************************)
VARIABLES
  lifecycle,        \* "fresh" before load(), "loaded" after it, "unloaded" after unload()
  timers,           \* the pending timeouts and the interval: handle -> [kind, left (ms)]
  debounceTimer,    \* main.ts 6
  cleanupInterval,  \* main.ts 7
  retryTimer,       \* UnifiedObserverManager.retryTimer
  scrollEndTimer,   \* UnifiedObserverManager.scrollEndTimer
  observer,         \* UnifiedObserverManager.observer: non-null or not, the roots it observes
  retryCount,       \* main.ts 1193
  flights,          \* the passes awaiting the promises of processPanelBlocks, oldest first
  applied,          \* per container element, the colour a pass last wrote on it
  eValue,           \* the backend: the colour the entity of every container carries
  backendDown,      \* the backend: get-block rejects
  h                 \* history of the scheduler, see SchedHistoryInit

schedVars == <<lifecycle, timers, debounceTimer, cleanupInterval, retryTimer, scrollEndTimer,
               observer, retryCount, flights, applied, eValue, backendDown, h>>

\* a handle variable that holds no timer (null)
NoTimer == 0
\* handles are taken from 1..MaxTimers; passes start while fewer than MaxFlights await
MaxTimers == 6
MaxFlights == 2

MAX_RETRY_COUNT == 3
RETRY_DELAY == 100
INITIAL_DELAY == 100
DEBOUNCE_DELAY == 100
SCROLL_RETRY_DELAY == 200
SCROLL_END_DELAY == 150
ATTACH_RETRY_DELAY == 100
\* the retries the comment of observePanelContainers speaks of (main.ts 1079)
AttachRetryLimit == 10
\* time passes in steps of this many ms
TickMs == RETRY_DELAY \div 2

Max(a, b) == IF a > b THEN a ELSE b

\* the values orca.state.panels takes: the host always shows a view panel
Topologies ==
  { <<ViewPanel("p1", "block", "1")>>,
    <<ViewPanel("p1", "block", "1"), ViewPanel("p2", "block", "3")>> }

\* collectViewPanels(orca.state.panels) mapped to the panel ids
RECURSIVE ViewPanelIds(_)
ViewPanelIds(viewPanels) ==
  IF viewPanels = <<>> THEN <<>>
  ELSE <<Head(viewPanels).id>> \o ViewPanelIds(Tail(viewPanels))

\* data-id of a container element, and what get-block answers for it
EntityOf(c) == "e" \o c
EntityColors == {"#a", "#b"}
PropsOfColor(color) == StyleProps(color, Null, TRUE, FALSE)

\* history: what the step just taken did, if it was a debounced pass's start
\* (changed, cleared, filled, gap), a call of initializeWithRetry (gap) or a
\* pass going on after its promises (stale); refetched in any of them
Step(kind, changed, cleared, filled, gap, stale, refetched) ==
  [kind |-> kind, changed |-> changed, cleared |-> cleared, filled |-> filled, gap |-> gap,
   stale |-> stale, refetched |-> refetched]
NoStep == Step("none", FALSE, FALSE, FALSE, 0, FALSE, FALSE)

\* the engine: everything load, unload, the timers' callbacks and the passes change
CurrentEngine ==
  [timers |-> timers, debounceTimer |-> debounceTimer, cleanupInterval |-> cleanupInterval,
   retryTimer |-> retryTimer, scrollEndTimer |-> scrollEndTimer, observer |-> observer,
   retryCount |-> retryCount, flights |-> flights, applied |-> applied,
   dom |-> CurrentDomCache, props |-> blockPropertiesCache,
   observedElements |-> observedElements, elementStyleStates |-> elementStyleStates,
   isScrolling |-> isScrolling, h |-> [h EXCEPT !.step = NoStep]]

EngineBecomes(e) ==
  /\ timers' = e.timers
  /\ debounceTimer' = e.debounceTimer
  /\ cleanupInterval' = e.cleanupInterval
  /\ retryTimer' = e.retryTimer
  /\ scrollEndTimer' = e.scrollEndTimer
  /\ observer' = e.observer
  /\ retryCount' = e.retryCount
  /\ flights' = e.flights
  /\ applied' = e.applied
  /\ DomCacheBecomes(e.dom)
  /\ blockPropertiesCache' = e.props
  /\ observedElements' = e.observedElements
  /\ elementStyleStates' = e.elementStyleStates
  /\ isScrolling' = e.isScrolling
  /\ h' = e.h

\* ---- timers
\* the handle setTimeout / setInterval returns: one no pending timer has. A
\* variable that still holds the handle of a timer that fired holds Spent, a
\* handle no timer gets again
Spent == MaxTimers + 1
FreeHandles(e) == (1..MaxTimers) \ DOMAIN e.timers
NewHandle(e) == CHOOSE id \in FreeHandles(e) : \A other \in FreeHandles(e) : id <= other

\* setTimeout(callback of that kind, delay) returning the handle id
setTimeout(ts, id, kind, delay) == MapSet(ts, id, [kind |-> kind, left |-> delay])

\* a variant of clearTimeout that cancels nothing
clearTimeoutNothing(ts, id) == ts

\* clearTimeout(id), clearInterval(id): nothing happens for a handle that is not pending
clearTimeout(ts, id) == IF id \in DOMAIN ts THEN MapDelete(ts, id) ELSE ts

PendingOf(ts, kinds) == {id \in DOMAIN ts : ts[id].kind \in kinds}
Due(ts, kind) == {id \in DOMAIN ts : ts[id].kind = kind /\ ts[id].left = 0}

\* ---- UnifiedObserverManager
NoObserver == [on |-> FALSE, roots |-> {}]

\* observePanelContainers
observePanelContainers(e, doc) ==
  IF ~e.observer.on THEN e
  ELSE LET ts == IF e.retryTimer # NoTimer THEN clearTimeout(e.timers, e.retryTimer)
                 ELSE e.timers
           e1 == [e EXCEPT !.timers = ts, !.retryTimer = NoTimer]
       IN  IF doc.panels = {}
           THEN LET id == NewHandle(e1)
                IN  [e1 EXCEPT !.timers = setTimeout(@, id, "attach", ATTACH_RETRY_DELAY),
                               !.retryTimer = id,
                               !.h.attachAttempts = Min(@ + 1, AttachRetryLimit + 1)]
           ELSE [e1 EXCEPT !.observer.roots = @ \cup doc.panels,
                           !.h.attachAttempts = 0]

\* the callback of the retry timer (main.ts 1080-1083)
AttachRetryCallback(e, doc) ==
  observePanelContainers([e EXCEPT !.retryTimer = NoTimer], doc)

\* refreshObserver
refreshObserver(e, doc) ==
  IF e.observer.on
  THEN observePanelContainers([e EXCEPT !.observer.roots = {}], doc)
  ELSE e

\* startObserver: the listeners of setupScrollListener stay on the document for good
startObserver(e, doc) ==
  observePanelContainers([e EXCEPT !.observer = [on |-> TRUE, roots |-> {}]], doc)

\* stopObserver
stopObserver(e) ==
  LET ts1 == IF e.retryTimer # NoTimer THEN clearTimeout(e.timers, e.retryTimer) ELSE e.timers
      ts2 == IF e.scrollEndTimer # NoTimer THEN clearTimeout(ts1, e.scrollEndTimer) ELSE ts1
  IN  [e EXCEPT !.observer = NoObserver, !.timers = ts2, !.retryTimer = NoTimer,
                !.scrollEndTimer = NoTimer, !.observedElements = <<>>,
                !.elementStyleStates = <<>>]

\* clearAllObservedElements
clearAllObservedElements(e) ==
  [e EXCEPT !.observedElements = <<>>, !.elementStyleStates = <<>>]

\* handleScrollStart and handleScrollEnd, both listeners of 'scroll'
ScrollHandlers(e) ==
  LET ts == IF e.scrollEndTimer # NoTimer THEN clearTimeout(e.timers, e.scrollEndTimer)
            ELSE e.timers
      e1 == [e EXCEPT !.isScrolling = TRUE, !.timers = ts]
      id == NewHandle(e1)
  IN  [e1 EXCEPT !.timers = setTimeout(@, id, "scrollEnd", SCROLL_END_DELAY),
                 !.scrollEndTimer = id]

\* ---- the passes
\* a pass awaiting the promises of one processPanelBlocks call
Flight(startHash, latest) ==
  [startHash |-> startHash, latest |-> latest, reads |-> <<>>, rest |-> <<>>]

\* getBlockStyleProperties of the entity of container c, up to its await: the
\* cached value, or a get-block call for what the backend holds (NoProps when
\* it rejects)
ReadOf(e, c, answer) ==
  LET cached == getBlockProperties(e.props, now, EntityOf(c)).ret
  IN  IF cached # NoValue THEN [props |-> cached, fetched |-> FALSE]
      ELSE [props |-> answer, fetched |-> TRUE]

\* readAllPanelsContainerBlocks over the panel ids left, until a
\* processPanelBlocks call awaits its promises or no panel is left
RECURSIVE WalkPanels(_, _, _, _, _)
WalkPanels(e, doc, ids, fl, answer) ==
  IF ids = <<>> THEN e
  ELSE LET got == getPanelElement(e.dom, doc, Head(ids))
           e1 == [e EXCEPT !.dom = got.cache]
       IN  IF got.ret = Null THEN WalkPanels(e1, doc, Tail(ids), fl, answer)
           ELSE LET gc == getContainerElements(e1.dom, doc, Head(ids))
                    e2 == [e1 EXCEPT !.dom = gc.cache]
                    reads == [c \in SeqToSet(gc.ret) |-> ReadOf(e2, c, answer)]
                    again == \E c \in DOMAIN reads :
                               reads[c].fetched /\ EntityOf(c) \in e2.h.negative
                IN  IF gc.ret = <<>> THEN WalkPanels(e2, doc, Tail(ids), fl, answer)
                    ELSE [e2 EXCEPT
                            !.flights = Append(@, [fl EXCEPT !.reads = reads,
                                                             !.rest = Tail(ids)]),
                            !.h.step.refetched = @ \/ again,
                            !.h.latestReads =
                              IF fl.latest
                              THEN [c \in DOMAIN @ \cup DOMAIN reads |->
                                      IF c \in DOMAIN reads THEN reads[c].props.colorValue
                                      ELSE @[c]]
                              ELSE @]

\* checkPanelStructureChange as the two callers use it, the hash it computed
\* kept as history
CheckStructure(e, viewPanels) ==
  LET chk == checkPanelStructureChange(e.dom, viewPanels)
  IN  [ret |-> chk.ret,
       e |-> [e EXCEPT !.dom = chk.cache,
                       !.h.recordedHash = generatePanelStructureHash(viewPanels)]]

\* getAllPanelBlockIds for block panels: readAllPanelsContainerBlocks up to
\* the first await of a processPanelBlocks call
getAllPanelBlockIds(e, doc, viewPanels, answer) ==
  LET chk == CheckStructure(e, viewPanels)
      e1 == IF chk.ret
            THEN refreshObserver([chk.e EXCEPT !.dom = clearAllDomCache(@)], doc)
            ELSE chk.e
      e2 == clearAllObservedElements(e1)
      e3 == [e2 EXCEPT !.flights = [i \in DOMAIN e2.flights |->
                                      [e2.flights[i] EXCEPT !.latest = FALSE]],
                       !.h.latestReads = <<>>]
  IN  WalkPanels(e3, doc, ViewPanelIds(viewPanels) \o SpecialPanels,
                 Flight(generatePanelStructureHash(viewPanels), TRUE), answer)

\* processPanelBlocks after Promise.all: the fetched values are cached, the
\* styles of the panel's containers replaced and registered; then
\* readAllPanelsContainerBlocks goes on with the panels left
ResumeFlight(e, doc, i, viewPanels, answer) ==
  LET fl == e.flights[i]
      fetched == {c \in DOMAIN fl.reads : fl.reads[c].fetched}
      props == [id \in DOMAIN e.props \cup {EntityOf(c) : c \in fetched} |->
                  IF \E c \in fetched : EntityOf(c) = id
                  THEN LET c == CHOOSE c \in fetched : EntityOf(c) = id
                       IN  setBlockProperties(e.props, now, id, fl.reads[c].props)[id]
                  ELSE e.props[id]]
      styled == {c \in DOMAIN fl.reads : fl.reads[c].props.colorValue # Null}
      e1 == [e EXCEPT
               !.flights = [j \in 1..(Len(@) - 1) |-> IF j < i THEN @[j] ELSE @[j + 1]],
               !.props = props,
               !.applied = [c \in DOMAIN @ |->
                              IF c \in DOMAIN fl.reads THEN fl.reads[c].props.colorValue
                              ELSE @[c]],
               !.observedElements =
                  [c \in DOMAIN @ \cup styled |->
                     IF c \in styled THEN fl.reads[c].props.colorValue ELSE @[c]],
               !.h.negative = @ \cup {EntityOf(c) : c \in {x \in fetched :
                                                            fl.reads[x].props = NoProps}},
               !.h.step = Step("resume", FALSE, FALSE, FALSE, 0,
                               fl.startHash # generatePanelStructureHash(viewPanels), FALSE)]
  IN  WalkPanels(e1, doc, fl.rest, fl, answer)

\* ---- the debounce
\* debounceGetPanelBlockIds up to setTimeout's return
debounceGetPanelBlockIds(e) ==
  LET ts == IF e.debounceTimer # NoTimer THEN clearTimeout(e.timers, e.debounceTimer)
            ELSE e.timers
      e1 == [e EXCEPT !.timers = ts]
      id == NewHandle(e1)
  IN  [e1 EXCEPT !.timers = setTimeout(@, id, "debounce", DEBOUNCE_DELAY),
                 !.debounceTimer = id]

\* the callback of the Valtio subscription (main.ts 2698-2712)
Notification(e) ==
  debounceGetPanelBlockIds(
    [e EXCEPT !.h.burst = IF @ > 0 /\ e.h.sinceNotify < DEBOUNCE_DELAY THEN Min(@ + 1, 2) ELSE 1,
              !.h.sinceNotify = 0,
              !.h.passesSinceNotify = 0])

\* lines 1298-1303 of the debounce callback
DebounceClears(e, doc, viewPanels) ==
  LET chk == CheckStructure(e, viewPanels)
  IN  IF chk.ret
      THEN refreshObserver([chk.e EXCEPT !.dom = clearAllDomCache(@),
                                         !.props = clearAllDataCache], doc)
      ELSE chk.e

\* the callback of the debounce timer (main.ts 1287-1313)
DebounceCallback(e, doc, viewPanels, answer) ==
  IF e.isScrolling
  THEN LET id == NewHandle(e)
       IN  [e EXCEPT !.timers = setTimeout(@, id, "rescroll", SCROLL_RETRY_DELAY),
                     !.debounceTimer = id]
  ELSE LET hash == generatePanelStructureHash(viewPanels)
           e1 == DebounceClears(e, doc, viewPanels)
           e2 == [e1 EXCEPT
                    !.h.passesSinceNotify = Min(@ + 1, 2),
                    !.h.step =
                       Step("debounce", hash # e.h.recordedHash,
                            /\ e1.dom = EmptyDomCache
                            /\ DOMAIN e1.props = {}
                            /\ e1.observer.roots = doc.panels,
                            /\ e.h.recordedHash # ""
                            /\ DOMAIN e.props # {}
                            /\ DOMAIN e.dom.containerElementsCache # {}
                            /\ doc.panels # {},
                            e.h.sinceNotify, FALSE, FALSE)]
       IN  getAllPanelBlockIds(e2, doc, viewPanels, answer)

\* ---- the initial load
\* isDOMReady: what it returns and the engine it leaves
RECURSIVE FindPanelElement(_, _, _)
FindPanelElement(e, doc, ids) ==
  IF ids = <<>> THEN [ret |-> FALSE, e |-> e]
  ELSE LET got == getPanelElement(e.dom, doc, Head(ids))
           e1 == [e EXCEPT !.dom = got.cache]
       IN  IF got.ret # Null THEN [ret |-> TRUE, e |-> e1]
           ELSE FindPanelElement(e1, doc, Tail(ids))
isDOMReady(e, doc, viewPanels) ==
  FindPanelElement(e, doc, ViewPanelIds(viewPanels) \o SpecialPanels)

\* a variant of the retry test that allows one more retry
ShouldRetryOneMore(count) == count <= MAX_RETRY_COUNT

\* the retry test of initializeWithRetry (main.ts 1408)
ShouldRetry(count) == count < MAX_RETRY_COUNT

\* initializeWithRetry
initializeWithRetry(e, doc, viewPanels, answer) ==
  LET ready == isDOMReady(e, doc, viewPanels)
      e1 == [ready.e EXCEPT
               !.h.initChecks = @ + 1,
               !.h.sinceInit = 0,
               !.h.initFound = ready.ret,
               !.h.step = Step("init", FALSE, FALSE, FALSE, e.h.sinceInit, FALSE, FALSE)]
  IN  IF ready.ret
      THEN getAllPanelBlockIds([e1 EXCEPT !.retryCount = 0, !.h.initPasses = @ + 1],
                               doc, viewPanels, answer)
      ELSE IF ShouldRetry(e1.retryCount)
           THEN LET id == NewHandle(e1)
                IN  [e1 EXCEPT !.retryCount = @ + 1,
                               !.timers = setTimeout(@, id, "init", RETRY_DELAY)]
           ELSE [e1 EXCEPT !.retryCount = 0]

\* ---- load and unload
\* load: the observer, the interval, the initial timer; the subscription is
\* on while lifecycle = "loaded"
load(e, doc) ==
  LET e1 == startObserver(e, doc)
      interval == NewHandle(e1)
      e2 == [e1 EXCEPT !.timers = setTimeout(@, interval, "interval", 0),
                       !.cleanupInterval = interval]
      initial == NewHandle(e2)
  IN  [e2 EXCEPT !.timers = setTimeout(@, initial, "init", INITIAL_DELAY)]

\* the callback of the 5-minute interval (main.ts 2685-2690)
IntervalCallback(e, doc) ==
  [e EXCEPT !.props = cleanupExpiredCache(@, now),
            !.dom = cleanupInvalidReferences(@, doc)]

\* unload
unload(e) ==
  LET e1 == stopObserver(e)
      e2 == [e1 EXCEPT !.props = clearAllDataCache, !.dom = clearAllDomCache(@)]
      ts1 == IF e2.debounceTimer # NoTimer THEN clearTimeout(e2.timers, e2.debounceTimer)
             ELSE e2.timers
      ts2 == IF e2.cleanupInterval # NoTimer THEN clearTimeout(ts1, e2.cleanupInterval)
             ELSE ts1
  IN  [e2 EXCEPT !.timers = ts2, !.debounceTimer = NoTimer, !.cleanupInterval = NoTimer]

(***************************************************************************)
(* The scheduler driven by the host, the clock and the backend             *)
(***************************************************************************)
SchedHistoryInit ==
  [step |-> NoStep,
   burst |-> 0,               \* notifications less than DEBOUNCE_DELAY apart up to the last one (0, 1, 2 for more)
   sinceNotify |-> DEBOUNCE_DELAY,  \* ms since the last notification, up to DEBOUNCE_DELAY
   passesSinceNotify |-> 0,   \* debounced passes started since the last notification
   recordedHash |-> "",       \* the hash the last checkPanelStructureChange computed
   initChecks |-> 0,          \* isDOMReady calls of initializeWithRetry
   sinceInit |-> 0,           \* ms since the last initializeWithRetry call, up to RETRY_DELAY + TickMs
   initFound |-> FALSE,       \* the last isDOMReady call of initializeWithRetry returned true
   initPasses |-> 0,          \* passes initializeWithRetry started
   attachAttempts |-> 0,      \* observePanelContainers calls in a row that found no root
   negative |-> {},           \* the entities whose failed get-block is cached, CACHE_TTL not yet over
   latestReads |-> <<>>]      \* per container, the colour the pass started last resolved for it

SchedInit ==
  /\ lifecycle = "fresh"
  /\ timers = <<>>
  /\ debounceTimer = NoTimer
  /\ cleanupInterval = NoTimer
  /\ retryTimer = NoTimer
  /\ scrollEndTimer = NoTimer
  /\ observer = NoObserver
  /\ retryCount = 0
  /\ flights = <<>>
  /\ applied = [c \in SeqToSet(Containers) |-> Null]
  /\ eValue = "#a"
  /\ backendDown = FALSE
  /\ h = SchedHistoryInit

\* what get-block answers now
Answer == IF backendDown THEN NoProps ELSE PropsOfColor(eValue)

Load ==
  /\ lifecycle = "fresh"
  /\ lifecycle' = "loaded"
  /\ \E e \in {load(CurrentEngine, CurrentDoc)} : EngineBecomes(e)

Unload ==
  /\ lifecycle = "loaded"
  /\ lifecycle' = "unloaded"
  /\ \E e \in {unload(CurrentEngine)} : EngineBecomes(e)

\* orca.state changes in something else than the panels
Notify ==
  /\ lifecycle = "loaded"
  /\ FreeHandles(CurrentEngine) # {}
  /\ \E e \in {Notification(CurrentEngine)} : EngineBecomes(e)
  /\ UNCHANGED lifecycle

\* the host opens, closes or navigates a panel; the subscription hears of it
HostSetPanels(t) ==
  /\ lifecycle = "loaded"
  /\ FreeHandles(CurrentEngine) # {}
  /\ t # panels
  /\ panels' = t
  /\ \E e \in {IF lifecycle = "loaded" THEN Notification(CurrentEngine) ELSE CurrentEngine} :
       EngineBecomes(e)
  /\ UNCHANGED lifecycle

\* a scroll event on the document while the plugin is loaded (the listeners
\* stay after unload(); those events are left out)
Scroll ==
  /\ lifecycle = "loaded"
  /\ FreeHandles(CurrentEngine) # {}
  /\ \E e \in {ScrollHandlers(CurrentEngine)} : EngineBecomes(e)
  /\ UNCHANGED lifecycle

\* TickMs pass while no timeout is due
Tick ==
  /\ lifecycle # "fresh"
  /\ \A id \in DOMAIN timers : timers[id].kind = "interval" \/ timers[id].left > 0
  /\ PendingOf(timers, {"debounce", "rescroll", "attach", "scrollEnd", "init"}) # {}
  /\ \E e \in {[CurrentEngine EXCEPT
                  !.timers = [id \in DOMAIN timers |->
                                [kind |-> timers[id].kind,
                                 left |-> Max(0, timers[id].left - TickMs)]],
                  !.h.sinceNotify = Min(@ + TickMs, DEBOUNCE_DELAY),
                  !.h.sinceInit = Min(@ + TickMs, RETRY_DELAY + TickMs)]} :
       EngineBecomes(e)
  /\ UNCHANGED lifecycle

\* the engine with the due timer id taken off the pending ones
Fired(id) ==
  [CurrentEngine EXCEPT !.timers = MapDelete(@, id),
                        !.debounceTimer = IF @ = id THEN Spent ELSE @,
                        !.retryTimer = IF @ = id THEN Spent ELSE @,
                        !.scrollEndTimer = IF @ = id THEN Spent ELSE @]

DebounceFires ==
  /\ Len(flights) < MaxFlights
  /\ FreeHandles(CurrentEngine) # {}
  /\ \E id \in Due(timers, "debounce") :
       \E e \in {DebounceCallback(Fired(id), CurrentDoc, panels, Answer)} : EngineBecomes(e)
  /\ UNCHANGED lifecycle

RescrollFires ==
  /\ FreeHandles(CurrentEngine) # {}
  /\ \E id \in Due(timers, "rescroll") :
       \E e \in {debounceGetPanelBlockIds(Fired(id))} : EngineBecomes(e)
  /\ UNCHANGED lifecycle

AttachRetryFires ==
  /\ FreeHandles(CurrentEngine) # {}
  /\ \E id \in Due(timers, "attach") :
       \E e \in {AttachRetryCallback(Fired(id), CurrentDoc)} : EngineBecomes(e)
  /\ UNCHANGED lifecycle

ScrollEndFires ==
  /\ \E id \in Due(timers, "scrollEnd") :
       \E e \in {[Fired(id) EXCEPT !.isScrolling = FALSE]} : EngineBecomes(e)
  /\ UNCHANGED lifecycle

InitFires ==
  /\ Len(flights) < MaxFlights
  /\ FreeHandles(CurrentEngine) # {}
  /\ \E id \in Due(timers, "init") :
       \E e \in {initializeWithRetry(Fired(id), CurrentDoc, panels, Answer)} :
         EngineBecomes(e)
  /\ UNCHANGED lifecycle

\* the interval fires, 5 minutes being any number of steps
IntervalFires ==
  /\ PendingOf(timers, {"interval"}) # {}
  /\ \E e \in {IntervalCallback(CurrentEngine, CurrentDoc)} : EngineBecomes(e)
  /\ UNCHANGED lifecycle

\* the promises of a pass are settled and the pass goes on
FlightResumes(i) ==
  /\ i \in DOMAIN flights
  /\ FreeHandles(CurrentEngine) # {}
  /\ \E e \in {ResumeFlight(CurrentEngine, CurrentDoc, i, panels, Answer)} : EngineBecomes(e)
  /\ UNCHANGED lifecycle

\* the user edits the colour of the entities
EntityEdit(color) ==
  /\ lifecycle # "fresh"
  /\ color # eValue
  /\ eValue' = color

\* the backend starts or stops rejecting get-block
BackendToggleDown ==
  /\ lifecycle # "fresh"
  /\ backendDown' = ~backendDown

\* C13: when the hash of the panels differs from the hash the previous check
\* computed, the debounced pass has an empty DOM cache, an empty property
\* cache and the observer on the panel roots of the document before it
\* resolves anything.
C13_ClearsOnChange ==
  (h.step.kind = "debounce" /\ h.step.changed) => h.step.cleared

C13_Witness ==
  /\ h.step.kind = "debounce"
  /\ h.step.changed
  /\ h.step.filled
  /\ h.step.cleared

\* C14: at most one debounce timer (the scroll re-schedule included) is
\* pending; no debounced pass starts less than DEBOUNCE_DELAY after a
\* notification, at most one starts after it, and one has started once no
\* debounce timer is left.
C14_Debounce ==
  /\ Cardinality(PendingOf(timers, {"debounce", "rescroll"})) <= 1
  /\ h.step.kind = "debounce" => h.step.gap >= DEBOUNCE_DELAY
  /\ h.passesSinceNotify <= 1
  /\ (lifecycle = "loaded" /\ h.burst > 0 /\ PendingOf(timers, {"debounce", "rescroll"}) = {})
       => h.passesSinceNotify = 1

C14_Witness ==
  /\ lifecycle = "loaded"
  /\ h.step.kind = "debounce"
  /\ h.passesSinceNotify = 1
  /\ PendingOf(timers, {"debounce", "rescroll"}) = {}
  /\ h.burst = 2

\* C15: initializeWithRetry checks the DOM at most MAX_RETRY_COUNT + 1 times,
\* RETRY_DELAY apart; it starts a pass exactly when a check finds a panel
\* element and schedules nothing after that; after the last check no retry is
\* pending and retryCount is 0.
C15_InitRetry ==
  /\ h.initChecks <= MAX_RETRY_COUNT + 1
  /\ (h.step.kind = "init" /\ h.initChecks > 1) => h.step.gap = RETRY_DELAY
  /\ h.initPasses = (IF h.initFound THEN 1 ELSE 0)
  /\ h.initFound => (PendingOf(timers, {"init"}) = {} /\ retryCount = 0)
  /\ h.initChecks = MAX_RETRY_COUNT + 1 => (PendingOf(timers, {"init"}) = {} /\ retryCount = 0)
  /\ (lifecycle # "fresh" /\ PendingOf(timers, {"init"}) = {}) =>
       (h.initFound \/ h.initChecks = MAX_RETRY_COUNT + 1)

C15_Witness ==
  /\ h.initChecks = MAX_RETRY_COUNT + 1
  /\ PendingOf(timers, {"init"}) = {}
  /\ ~h.initFound
  /\ retryCount = 0

\* C18: a pass that was awaiting its promises when the panels changed writes
\* no style and registers no container after the change.
C18_StaleDiscarded == ~(h.step.kind = "resume" /\ h.step.stale)

\* C19: once no pass is awaiting, the colour on every container the pass
\* started last resolved, and its entry in the registry, are what that pass
\* resolved.
C19_LastStartedWins ==
  (lifecycle = "loaded" /\ flights = <<>>) =>
    \A c \in DOMAIN h.latestReads :
      /\ applied[c] = h.latestReads[c]
      /\ IF h.latestReads[c] = Null THEN c \notin DOMAIN observedElements
         ELSE c \in DOMAIN observedElements /\ observedElements[c] = h.latestReads[c]

\* C20: once a failed get-block of an entity is cached, no get-block call is
\* made for the entity before CACHE_TTL is over.
C20_NegativeCached == ~h.step.refetched

\* C35: a debounced pass at which the hash of the panels equals the hash the
\* previous check computed, and which finds the property cache and the DOM
\* cache filled, leaves them filled and the observer as it was: it has not
\* an empty DOM cache, an empty property cache and a re-attached observer
\* before it resolves anything.
C35_UnchangedKeeps ==
  (h.step.kind = "debounce" /\ ~h.step.changed /\ h.step.filled) => ~h.step.cleared

\* C16: observePanelContainers reschedules itself at most AttachRetryLimit
\* times in a row while the document has no panel root.
C16_AttachRetryBounded == h.attachAttempts <= AttachRetryLimit

\* C17: after unload() no timer is pending, the observer is disconnected and
\* the property cache, the DOM cache, the registry and the detector states
\* are empty.
C17_CleanAfterUnload ==
  lifecycle = "unloaded" =>
    /\ DOMAIN timers = {}
    /\ ~observer.on
    /\ DOMAIN blockPropertiesCache = {}
    /\ DOMAIN panelElementsCache = {}
    /\ DOMAIN containerElementsCache = {}
    /\ DOMAIN observedElements = {}
    /\ DOMAIN elementStyleStates = {}

(***************************************************************************)
(* Functions called on drawn arguments                                     *)
(***************************************************************************)
VARIABLES
  fnArgs,  \* the arguments of the call, <<>> where no function is under call
  fnRet,   \* <<>> before the call, <<the value returned>> after it
  tick     \* history: what the last MutationObserver callback on a batch of the host did

\* pending: the tracked containers changed by the host and not given to
\* needsStyleUpdate since
TickRecord(kind, batch, scrolling, throttled, reset, elements, writes, detectorChanged,
           mismatch, pending) ==
  [kind |-> kind, batch |-> batch, scrolling |-> scrolling, throttled |-> throttled,
   reset |-> reset, elements |-> elements, writes |-> writes,
   detectorChanged |-> detectorChanged, mismatch |-> mismatch, pending |-> pending]
\* no callback on a batch of the host in the last step
NoTick(pending) ==
  TickRecord("none", <<>>, FALSE, FALSE, {}, {}, [n \in Nodes |-> 0], FALSE, {}, pending)

\* what the specifications of the plugin and of the scheduler leave alone
sideVars == <<failing, fnArgs, fnRet, tick>>
SideParked ==
  /\ failing = {}
  /\ fnArgs = <<>>
  /\ fnRet = <<>>
  /\ tick = NoTick({})

\* the colour lists generateMultiColorBackground is called on
GradientColors == {"#ff0000", "#111111", "#222222"}
MaxColors == 5
RECURSIVE ColorLists(_)
ColorLists(n) ==
  IF n = 0 THEN {<<>>}
  ELSE ColorLists(n - 1)
       \cup {Append(l, c) : l \in {x \in ColorLists(n - 1) : Len(x) = n - 1}, c \in GradientColors}

GradientInit ==
  /\ fnArgs \in {<<l>> : l \in ColorLists(MaxColors)}
  /\ fnRet = <<>>

GenerateMultiColorBackgroundAct ==
  /\ fnRet = <<>>
  /\ fnRet' = <<generateMultiColorBackground(fnArgs[1])>>
  /\ UNCHANGED fnArgs

\* k equal sectors of a full turn, sector i in the colour i at alpha 0.75
RECURSIVE C22_Sectors(_, _, _)
C22_Sectors(colors, i, k) ==
  IF i > k THEN ""
  ELSE hexToRgba(colors[i], "0.75") \o " " \o ToString(((i - 1) * 360) \div k) \o "deg "
       \o ToString((i * 360) \div k) \o "deg" \o (IF i < k THEN ", " ELSE "")
       \o C22_Sectors(colors, i + 1, k)
C22_Half(colors, i) ==
  hexToRgba(colors[i], "0.75") \o " " \o ToString((i - 1) * 50) \o "%, "
  \o hexToRgba(colors[i], "0.75") \o " " \o ToString(i * 50) \o "%"
C22_Expected(colors) ==
  IF Len(colors) <= 1 THEN ""
  ELSE IF Len(colors) = 2
  THEN "linear-gradient(to bottom, " \o C22_Half(colors, 1) \o ", " \o C22_Half(colors, 2) \o ")"
  ELSE IF Len(colors) = 3
  THEN "conic-gradient(from 0deg, " \o C22_Sectors(colors, 1, 3) \o ")"
  ELSE "conic-gradient(from 0deg, " \o C22_Sectors(colors, 1, 4) \o ")"

\* C22: generateMultiColorBackground returns '' for no colour and for one;
\* for two colours a top-to-bottom gradient with the first colour from 0% to
\* 50% and the second from 50% to 100%; for three colours a conic gradient of
\* three sectors of 120 degrees; for four or more a conic gradient of four
\* sectors of 90 degrees in the first four colours; the colours are in input
\* order, each at alpha 0.75.
C22_Gradient ==
  fnRet # <<>> =>
    /\ fnRet[1] = C22_Expected(fnArgs[1])
    /\ Len(fnArgs[1]) > 4 => fnRet[1] = C22_Expected(SubSeq(fnArgs[1], 1, 4))

\* C22 witness: five colours, the fifth differing from the first, gave the
\* four sectors of the first four
C22_Witness ==
  /\ fnRet # <<>>
  /\ Len(fnArgs[1]) = 5
  /\ fnArgs[1][5] # fnArgs[1][1]
  /\ fnRet[1] = "conic-gradient(from 0deg, " \o C22_Sectors(fnArgs[1], 1, 4) \o ")"

\* TanaPropertySystem
TANA_COLOR_PROP == "_tana-color"
TANA_ICON_PROP == "_tana-icon"

\* prop?.type === 1
Enabled(prop) == prop # NoValue /\ prop.type = 1

\* TanaPropertySystem.getTanaProperties
getTanaProperties(block) ==
  LET colorProp == FindProp(block.properties, TANA_COLOR_PROP)
      iconProp == FindProp(block.properties, TANA_ICON_PROP)
  IN  [color |-> IF Enabled(colorProp) THEN colorProp.value ELSE Null,
       icon |-> IF Enabled(iconProp) THEN iconProp.value ELSE Null,
       colorEnabled |-> Enabled(colorProp),
       iconEnabled |-> Enabled(iconProp)]

\* TanaPropertySystem.getFinalProperties
getFinalProperties(block) ==
  LET tanaProps == getTanaProperties(block)
      nativeColorProp == FindProp(block.properties, "_color")
      nativeIconProp == FindProp(block.properties, "_icon")
      nativeColor == IF Enabled(nativeColorProp) THEN nativeColorProp.value ELSE Null
      nativeIcon == IF Enabled(nativeIconProp) THEN nativeIconProp.value ELSE Null
  IN  IF tanaProps.colorEnabled \/ tanaProps.iconEnabled
      THEN [color |-> tanaProps.color, icon |-> tanaProps.icon,
            colorEnabled |-> tanaProps.colorEnabled, iconEnabled |-> tanaProps.iconEnabled,
            source |-> "tana"]
      ELSE IF Truthy(nativeColor) \/ Truthy(nativeIcon)
      THEN [color |-> nativeColor, icon |-> nativeIcon,
            colorEnabled |-> Truthy(nativeColor), iconEnabled |-> Truthy(nativeIcon),
            source |-> "native"]
      ELSE [color |-> Null, icon |-> Null, colorEnabled |-> FALSE, iconEnabled |-> FALSE,
            source |-> "none"]

\* the blocks getFinalProperties is called on: each of the four properties is
\* absent, present but disabled (type 0), or enabled (type 1) with a value
PropStates == {"absent", "disabled", "set"}
PropOf(name, state, value) ==
  IF state = "absent" THEN <<>>
  ELSE <<Prop(name, IF state = "set" THEN 1 ELSE 0, value)>>
TanaBlock(c) ==
  Block(PropOf("_color", c.color, "#ff0000") \o PropOf("_icon", c.icon, "ti ti-home")
        \o PropOf(TANA_COLOR_PROP, c.tanaColor, "#00ff00")
        \o PropOf(TANA_ICON_PROP, c.tanaIcon, "ti ti-star"),
        NoValue, <<>>)
TanaCases == [color : PropStates, icon : PropStates, tanaColor : PropStates, tanaIcon : PropStates]

TanaInit ==
  /\ fnArgs \in {<<c>> : c \in TanaCases}
  /\ fnRet = <<>>

GetFinalPropertiesAct ==
  /\ fnRet = <<>>
  /\ fnRet' = <<getFinalProperties(TanaBlock(fnArgs[1]))>>
  /\ UNCHANGED fnArgs

\* C25: the colour getFinalProperties returns is the value of _tana-color
\* when that property is enabled, otherwise the value of the enabled native
\* _color; the icon is the value of _tana-icon when enabled, otherwise the
\* value of the enabled native _icon; the source is 'none' only when none of
\* the four properties is enabled.
C25_PerProperty ==
  fnRet # <<>> =>
    LET c == fnArgs[1]
        r == fnRet[1]
    IN  /\ r.color = IF c.tanaColor = "set" THEN "#00ff00"
                     ELSE IF c.color = "set" THEN "#ff0000" ELSE Null
        /\ r.icon = IF c.tanaIcon = "set" THEN "ti ti-star"
                    ELSE IF c.icon = "set" THEN "ti ti-home" ELSE Null
        /\ r.source = "none" =>
             "set" \notin {c.color, c.icon, c.tanaColor, c.tanaIcon}

(***************************************************************************)
(* A debounced pass that throws                                            *)
(***************************************************************************)
\* here fnRet keeps, for every pass awaiting its promises, the callback that
\* started it ("debounce" or "init"), and fnArgs what happened since the last
\* throw: the throw, the first notification after it, the first debounced
\* pass after that

\* a variant of the catch block that clears nothing
CatchPassErrorKeeps(e) == e
\* the catch block of the debounce callback (main.ts 1306-1311)
CatchPassError(e) == [e EXCEPT !.props = clearAllDataCache, !.dom = clearAllDomCache(@)]

Thrown(e) ==
  CatchPassError([e EXCEPT !.h.step = Step("throw", FALSE, FALSE, FALSE, 0, FALSE, FALSE)])

\* the starters of the passes awaiting once flight i is gone (0: none) and
\* the callback of that starter went on to e
Starters(e, i, starter) ==
  LET kept == [j \in 1..(Len(fnRet) - (IF i = 0 THEN 0 ELSE 1)) |->
                 IF i = 0 \/ j < i THEN fnRet[j] ELSE fnRet[j + 1]]
  IN  IF Len(e.flights) > Len(kept) THEN Append(kept, starter) ELSE kept

\* where the part of a pass after Promise.all throws: before it applies
\* anything, or after it applied the styles of the panel
ThrowPoints == {"before", "after"}

NotifyAct ==
  /\ Notify
  /\ fnArgs' = IF fnArgs = <<"threw">> THEN <<"threw", "notified">> ELSE fnArgs
  /\ UNCHANGED fnRet

DebounceFiresAct ==
  /\ Len(flights) < MaxFlights
  /\ FreeHandles(CurrentEngine) # {}
  /\ \E id \in Due(timers, "debounce") :
       \E e \in {DebounceCallback(Fired(id), CurrentDoc, panels, Answer)} :
         /\ EngineBecomes(e)
         /\ fnRet' = Starters(e, 0, "debounce")
  /\ fnArgs' = IF fnArgs = <<"threw", "notified">> /\ ~isScrolling
               THEN <<"threw", "notified", "passed">>
               ELSE IF Len(fnArgs) = 3 THEN <<>> ELSE fnArgs
  /\ UNCHANGED lifecycle

\* the debounce timer fires and collectViewPanels, the first call of
\* getAllPanelBlockIds, throws
DebounceThrows ==
  /\ ~isScrolling
  /\ \E id \in Due(timers, "debounce") :
       \E e \in {Thrown(DebounceClears(Fired(id), CurrentDoc, panels))} : EngineBecomes(e)
  /\ fnArgs' = <<"threw">>
  /\ UNCHANGED <<fnRet, lifecycle>>

InitFiresAct ==
  /\ Len(flights) < MaxFlights
  /\ FreeHandles(CurrentEngine) # {}
  /\ \E id \in Due(timers, "init") :
       \E e \in {initializeWithRetry(Fired(id), CurrentDoc, panels, Answer)} :
         /\ EngineBecomes(e)
         /\ fnRet' = Starters(e, 0, "init")
  /\ UNCHANGED <<fnArgs, lifecycle>>

FlightResumesAct(i) ==
  /\ i \in DOMAIN flights
  /\ FreeHandles(CurrentEngine) # {}
  /\ \E e \in {ResumeFlight(CurrentEngine, CurrentDoc, i, panels, Answer)} :
       /\ EngineBecomes(e)
       /\ fnRet' = Starters(e, i, fnRet[i])
  /\ UNCHANGED <<fnArgs, lifecycle>>

\* the promises of a pass the debounce callback started are settled and the
\* pass throws
FlightThrows(i, point) ==
  /\ i \in DOMAIN flights
  /\ fnRet[i] = "debounce"
  /\ LET gone == [CurrentEngine EXCEPT
                    !.flights = [j \in 1..(Len(@) - 1) |-> IF j < i THEN @[j] ELSE @[j + 1]]]
         done == ResumeFlight([CurrentEngine EXCEPT !.flights[i].rest = <<>>], CurrentDoc, i,
                              panels, Answer)
     IN  \E e \in {Thrown(IF point = "before" THEN gone ELSE done)} :
           /\ EngineBecomes(e)
           /\ fnRet' = Starters(e, i, fnRet[i])
  /\ fnArgs' = <<"threw">>
  /\ UNCHANGED lifecycle

\* C34: when a pass the debounce timer started has thrown, the property cache
\* and the DOM cache are empty and the plugin goes on; the debounce timer of
\* the next notification fires and, when the plugin is not scrolling, starts
\* a pass that resolves the containers of the rendered panel.
C34_Contained ==
  /\ h.step.kind = "throw" =>
       /\ blockPropertiesCache = clearAllDataCache
       /\ CurrentDomCache = EmptyDomCache
  /\ (fnArgs = <<"threw", "notified", "passed">> /\ h.step.kind = "debounce") =>
       \E i \in DOMAIN flights :
         /\ flights[i].latest
         /\ fnRet[i] = "debounce"
         /\ DOMAIN flights[i].reads = {c \in SeqToSet(Containers) : ParentOf(c) \in docPanels}

\* C34 witness: a debounced pass threw, a notification followed and its
\* debounced pass started on containers an earlier pass had styled
C34_Witness ==
  /\ fnArgs = <<"threw", "notified", "passed">>
  /\ h.step.kind = "debounce"
  /\ flights # <<>>
  /\ \E c \in DOMAIN applied : applied[c] # Null

(***************************************************************************)
(* Scroll and touch events while notifications are pending                 *)
(***************************************************************************)
\* the host events of a run: fnArgs is the log of them
MaxEvents == 3

\* handleScrollStart and handleScrollEnd (main.ts 1035-1052)
handleScrollStart(e) == [e EXCEPT !.isScrolling = TRUE]
handleScrollEnd(e) ==
  LET ts == IF e.scrollEndTimer # NoTimer THEN clearTimeout(e.timers, e.scrollEndTimer)
            ELSE e.timers
      e1 == [e EXCEPT !.timers = ts]
      id == NewHandle(e1)
  IN  [e1 EXCEPT !.timers = setTimeout(@, id, "scrollEnd", SCROLL_END_DELAY),
                 !.scrollEndTimer = id]

\* a finger is on the screen: a touchmove was seen and neither a touchend nor
\* a touchcancel since
FingerDown ==
  \E i \in 1..Len(fnArgs) :
    /\ fnArgs[i] = "touchmove"
    /\ \A j \in (i + 1)..Len(fnArgs) : fnArgs[j] \notin {"touchend", "touchcancel"}

\* the host events have stopped
EventsOver == Len(fnArgs) >= MaxEvents /\ ~FingerDown

NotifyEvent ==
  /\ Len(fnArgs) < MaxEvents
  /\ Notify
  /\ fnArgs' = Append(fnArgs, "notify")
  /\ UNCHANGED fnRet

\* 'scroll': both listeners run (main.ts 1055-1056)
ScrollEvent ==
  /\ Len(fnArgs) < MaxEvents
  /\ lifecycle = "loaded"
  /\ FreeHandles(CurrentEngine) # {}
  /\ \E e \in {handleScrollEnd(handleScrollStart(CurrentEngine))} : EngineBecomes(e)
  /\ fnArgs' = Append(fnArgs, "scroll")
  /\ UNCHANGED <<fnRet, lifecycle>>

\* 'touchmove': handleScrollStart alone (main.ts 1059)
TouchMove ==
  /\ Len(fnArgs) < MaxEvents
  /\ lifecycle = "loaded"
  /\ \E e \in {handleScrollStart(CurrentEngine)} : EngineBecomes(e)
  /\ fnArgs' = Append(fnArgs, "touchmove")
  /\ UNCHANGED <<fnRet, lifecycle>>

\* 'touchend': handleScrollEnd alone (main.ts 1060)
TouchEnd ==
  /\ FingerDown
  /\ lifecycle = "loaded"
  /\ FreeHandles(CurrentEngine) # {}
  /\ \E e \in {handleScrollEnd(CurrentEngine)} : EngineBecomes(e)
  /\ fnArgs' = Append(fnArgs, "touchend")
  /\ UNCHANGED <<fnRet, lifecycle>>

\* 'touchcancel' ends the touch; the plugin has no listener for it
TouchCancel ==
  /\ FingerDown
  /\ lifecycle = "loaded"
  /\ fnArgs' = Append(fnArgs, "touchcancel")
  /\ UNCHANGED <<schedVars, domCacheVars, blockPropertiesCache, observedElements,
                 elementStyleStates, isScrolling, fnRet>>

\* the debounce timer fires; fnRet holds the starter of each pass awaiting
ScrollDebounceFires ==
  /\ Len(flights) < MaxFlights
  /\ FreeHandles(CurrentEngine) # {}
  /\ \E id \in Due(timers, "debounce") :
       \E e \in {DebounceCallback(Fired(id), CurrentDoc, panels, Answer)} :
         /\ EngineBecomes(e)
         /\ fnRet' = Starters(e, 0, "debounce")
  /\ UNCHANGED <<fnArgs, lifecycle>>

\* how many of the passes awaiting the debounce timer started
RECURSIVE DebounceStarted(_)
DebounceStarted(starters) ==
  IF starters = <<>> THEN 0
  ELSE (IF Head(starters) = "debounce" THEN 1 ELSE 0) + DebounceStarted(Tail(starters))

(***************************************************************************)
(* The UnifiedObserverManager under any sequence of calls                  *)
(***************************************************************************)
\* fnRet keeps, for every MutationObserver startObserver constructed, the
\* roots it observes now (this.observer is the last one while it is
\* non-null); fnArgs keeps the last call and whether this.observer was set
\* when it was made
MaxObservers == 3

\* a variant in which disconnect() leaves the roots observed
DisconnectNothing(created) == created
\* this.observer.disconnect() (main.ts 907-909, 1104-1105, 1134-1137)
Disconnect(created) ==
  IF created = <<>> THEN created ELSE [created EXCEPT ![Len(created)] = {}]

\* the roots of this.observer after a call or a callback
Observing(created, e) ==
  IF e.observer.on /\ created # <<>> THEN [created EXCEPT ![Len(created)] = e.observer.roots]
  ELSE created

WasSet == IF observer.on THEN "set" ELSE "null"

StartObserverAct ==
  /\ Len(fnRet) < MaxObservers
  /\ FreeHandles(CurrentEngine) # {}
  /\ \E e \in {startObserver(CurrentEngine, CurrentDoc)} :
       /\ EngineBecomes(e)
       /\ fnRet' = Append(IF observer.on THEN Disconnect(fnRet) ELSE fnRet, e.observer.roots)
  /\ fnArgs' = <<"startObserver", WasSet>>

RefreshObserverAct ==
  /\ FreeHandles(CurrentEngine) # {}
  /\ \E e \in {refreshObserver(CurrentEngine, CurrentDoc)} :
       /\ EngineBecomes(e)
       /\ fnRet' = Observing(IF observer.on THEN Disconnect(fnRet) ELSE fnRet, e)
  /\ fnArgs' = <<"refreshObserver", WasSet>>

StopObserverAct ==
  /\ \E e \in {stopObserver(CurrentEngine)} : EngineBecomes(e)
  /\ fnRet' = IF observer.on THEN Disconnect(fnRet) ELSE fnRet
  /\ fnArgs' = <<"stopObserver", WasSet>>

\* the retry timer of observePanelContainers fires
RetryFiresAct ==
  /\ FreeHandles(CurrentEngine) # {}
  /\ \E id \in Due(timers, "attach") :
       \E e \in {AttachRetryCallback(Fired(id), CurrentDoc)} :
         /\ EngineBecomes(e)
         /\ fnRet' = Observing(fnRet, e)
  /\ UNCHANGED fnArgs

\* TickMs pass while no timeout is due
RetryClock ==
  /\ timers # <<>>
  /\ \A id \in DOMAIN timers : timers[id].left > 0
  /\ \E e \in {[CurrentEngine EXCEPT
                  !.timers = [id \in DOMAIN timers |->
                                [kind |-> timers[id].kind,
                                 left |-> Max(0, timers[id].left - TickMs)]],
                  !.h = h]} :
       EngineBecomes(e)
  /\ UNCHANGED <<fnArgs, fnRet>>

\* C33: of the MutationObservers constructed so far at most one observes any
\* root, at most one retry timer of observePanelContainers is pending, and
\* after refreshObserver called while this.observer is null (after
\* stopObserver, or before startObserver) no observer observes a root and no
\* retry timer is pending.
C33_SingleSubscription ==
  /\ Cardinality({i \in DOMAIN fnRet : fnRet[i] # {}}) <= 1
  /\ Cardinality(PendingOf(timers, {"attach"})) <= 1
  /\ fnArgs = <<"refreshObserver", "null">> =>
       /\ observer = NoObserver
       /\ \A i \in DOMAIN fnRet : fnRet[i] = {}
       /\ PendingOf(timers, {"attach"}) = {}

\* C33 witness: startObserver was called a third time while this.observer
\* was set; the third observer is the only one that observes a root
C33_Witness ==
  /\ Len(fnRet) = 3
  /\ fnRet[1] = {}
  /\ fnRet[2] = {}
  /\ fnRet[3] # {}
  /\ fnArgs = <<"startObserver", "set">>
  /\ h.attachAttempts = 0

(***************************************************************************)
(* The observer callback on the batches the host's changes produce         *)
(***************************************************************************)
\* the records the observer is given (main.ts 1089-1094: class attributes and
\* child lists below the panel roots): the handle of container n changed its
\* class, an element was added below n, or nodes were only removed below n
HostRecords ==
  {ClassMutation(n) : n \in Nodes} \cup {ChildListMutation(n, added) : n \in Nodes, added \in BOOLEAN}
\* the batches delivered: one record, or a class change of the outer handle
\* together with one more record
HostBatches ==
  {<<r>> : r \in HostRecords} \cup {<<ClassMutation("n1"), r>> : r \in HostRecords}

\* the containers a batch has records for
NodesOf(batch) == {batch[i].node : i \in 1..Len(batch)}

\* the DOM after the changes a batch reports: every class record is a
\* collapse or an expansion of the handle
RECURSIVE AfterChanges(_, _)
AfterChanges(d, batch) ==
  IF batch = <<>> THEN d
  ELSE AfterChanges(
         IF Head(batch).type = "attributes"
         THEN [d EXCEPT !.handle[Head(batch).node].classes =
                 IF COLLAPSED \in @ THEN @ \ {COLLAPSED} ELSE @ \cup {COLLAPSED}]
         ELSE d,
         Tail(batch))

\* the host changes the DOM and the observer callback runs on the batch
HostDelivers(batch) ==
  /\ Len(rafQueue) <= MaxQueue
  /\ LET before == [CurrentWorld EXCEPT !.dom = AfterChanges(@, batch)]
         got == CollectAll(before, batch, [states |-> elementStyleStates, elements |-> <<>>])
         w == ObserverCallback(before, batch, now, cstyle, isScrolling, settings)
         throttled == now - lastUpdateTime < UPDATE_THROTTLE
         tracked == {n \in Nodes : observedElements[n] # NoValue}
         checked == IF isScrolling \/ throttled THEN {} ELSE SeqToSet(got.elements)
     IN  /\ Becomes(w)
         /\ tick' = TickRecord(
                      "callback", batch, isScrolling, throttled,
                      IF isScrolling THEN {} ELSE {n \in tracked : got.states[n] = NoValue},
                      IF isScrolling THEN {} ELSE SeqToSet(got.elements),
                      w.writes,
                      w.elementStyleStates # elementStyleStates,
                      {n \in checked : /\ got.states[n] # NoValue
                                       /\ ~cstyle[n].hasBoldClass
                                       /\ got.states[n].expectedStyles # cstyle[n]},
                      IF isScrolling THEN tick.pending
                      ELSE (tick.pending \cup (NodesOf(batch) \cap tracked)) \ checked)
  /\ UNCHANGED <<passVars, cstyle, settings, isScrolling, cacheVars>>

\* a scroll or touchmove event, and the scroll-end timer 150 ms after the last one
ScrollStarts ==
  /\ ~isScrolling
  /\ isScrolling' = TRUE
  /\ tick' = NoTick(tick.pending)
  /\ wrote' = FALSE
  /\ UNCHANGED <<passVars, domVars, settings, observedElements, elementStyleStates,
                 lastUpdateTime, lastWrite, matchTicks, cacheVars>>
ScrollEnds ==
  /\ isScrolling
  /\ isScrolling' = FALSE
  /\ tick' = NoTick(tick.pending)
  /\ wrote' = FALSE
  /\ UNCHANGED <<passVars, domVars, settings, observedElements, elementStyleStates,
                 lastUpdateTime, lastWrite, matchTicks, cacheVars>>

\* the inline style and the 'b' class the host gives a container element:
\* none, the very values the detector expects, or the class 'b'
ObservedStyles(n) == HostStyles(n) \cup {[EmptyObserved EXCEPT !.hasBoldClass = TRUE]}

\* C26: a callback on a batch none of whose records is under a container of
\* the registry calls no writer and leaves the detector's states as they were.
C26_UntrackedIgnored ==
  (tick.kind = "callback" /\ \A n \in NodesOf(tick.batch) : observedElements[n] = NoValue) =>
    /\ \A n \in Nodes : tick.writes[n] = 0
    /\ ~tick.detectorChanged
    /\ ~wrote

\* C26 witness: while the nested container was registered and had a detector
\* state, a batch with a class change and an insertion under the outer,
\* unregistered container was processed
C26_Witness ==
  /\ tick.kind = "callback"
  /\ ~tick.scrolling
  /\ ~tick.throttled
  /\ tick.batch = <<ClassMutation("n1"), ChildListMutation("n1", TRUE)>>
  /\ observedElements["n1"] = NoValue
  /\ observedElements["n2"] # NoValue
  /\ elementStyleStates["n2"] # NoValue

\* C27: a callback, outside scrolling, on a batch that only reports nodes
\* removed under a registered container resets the detector state of that
\* container and takes the container into the elements to update.
C27_RemovalRelevant ==
  \A n \in Nodes :
    (/\ tick.kind = "callback"
     /\ ~tick.scrolling
     /\ tick.batch = <<ChildListMutation(n, FALSE)>>
     /\ observedElements[n] # NoValue) =>
      /\ n \in tick.elements
      /\ n \in tick.reset

\* the records of structural change C28 names: the handle gained or lost the
\* collapsed class, or an element was added under the container
C28_Structural(n) ==
  {ClassMutation(n), ChildListMutation(n, TRUE)}

\* C28: a callback, outside scrolling, on the report of one such change under
\* a registered container leaves the container without detector state before
\* the update loop, whatever its state was; and when the callback is not cut
\* by the throttle the writer is called on the container, whose handle then
\* carries the registered display colour.
C28_ForceReset ==
  \A n \in Nodes :
    (/\ tick.kind = "callback"
     /\ ~tick.scrolling
     /\ Len(tick.batch) = 1
     /\ tick.batch[1] \in C28_Structural(n)
     /\ observedElements[n] # NoValue) =>
      /\ n \in tick.reset
      /\ ~tick.throttled =>
           /\ tick.writes[n] = 1
           /\ handle[n].color = observedElements[n].displayColor

\* C29: in a callback that is not scrolling and not cut by the throttle, for
\* every container given to needsStyleUpdate that has a detector state, has
\* not the class 'b' and whose style read differs from the expected snapshot:
\* the writer was called exactly once on it, and its detector state has
\* count 0 and is not stable.
C29_MismatchTick ==
  tick.kind = "callback" =>
    \A n \in tick.mismatch :
      /\ tick.writes[n] = 1
      /\ elementStyleStates[n] # NoValue
      /\ elementStyleStates[n].changeCount = 0
      /\ ~elementStyleStates[n].isStable

\* C29 witness: the handle of the nested container was expanded and changed
\* in one batch with that of the outer one; both containers had a detector
\* state, both mismatched and both were written once
C29_Witness ==
  /\ tick.kind = "callback"
  /\ tick.mismatch = {"n1", "n2"}
  /\ tick.writes = [n \in Nodes |-> 1]
  /\ COLLAPSED \notin handle["n2"].classes

\* C30: every change the host makes under a registered container while the
\* plugin is not scrolling is followed, sooner or later, by a callback that
\* gives the container to needsStyleUpdate (or by a pass that applies its
\* style again), also when no further change follows.
C30_NoLostUpdate ==
  \A n \in Nodes : (n \in tick.pending) ~> (n \notin tick.pending)

(***************************************************************************)
(* Properties of the plugin                                                *)
(***************************************************************************)
\* C1: when the host sends the observer nothing, so that the only mutations
\* it sees are the class rewrites of the writers' own callbacks, the observer
\* stops calling the writers: unless sync passes keep starting, from some
\* point on no step is an observer write.
C1_EchoWritesStop == ([]<>(pc = "resolving")) \/ <>[](~wrote)

\* C2: a tracked container whose last MAX_CHANGE_COUNT checks in a row found
\* the observed style equal to the expected snapshot is marked stable.
C2_StableAfterK ==
  \A n \in Nodes :
    matchTicks[n] >= MAX_CHANGE_COUNT =>
      /\ elementStyleStates[n] # NoValue
      /\ elementStyleStates[n].isStable

\* C3: on every DOM the writers, the clears and the host produce, for every style and every container,
\* the style applied twice (with or without a frame between the two calls)
\* leaves every handle's colour, background colour, background image,
\* opacity, data-icon and class set, and every title and inline colour, as
\* the style applied once leaves them.
C3_WriterIdempotent ==
  \A n \in Nodes : \A s \in Styles :
    LET d0 == [CurrentDom EXCEPT !.rafQueue = <<>>]
        once == ApplyStyle(d0, n, s, settings)
        settled == Settle(once)
    IN  /\ Settle(ApplyStyle(settled, n, s, settings)) = settled
        /\ Settle(ApplyStyle(once, n, s, settings)) = settled
        /\ ApplyStyle(once, n, s, settings).handle = once.handle

\* a multi-tag style with a Tabler icon is applied again to a handle that
\* already carries its gradient, its collapsed class and its icon classes
C3_Witness ==
  /\ handle["n1"].backgroundImage = generateMultiColorBackground(<<"#111111", "#222222">>)
  /\ {COLLAPSED, "ti", "ti-star"} \subseteq handle["n1"].classes
  /\ rafQueue = <<IconCallback("n1", "ti ti-star"),
                  MultiCallback("n1", <<"#111111", "#222222">>)>>

\* C7: once a pass is over in which the entity of a container, having
\* neither colour nor icon nor tags, resolved to no style, the container's
\* handle carries no colour, no background colour, no gradient and no
\* data-icon, and its title no colour.
C7_ClearedOnNone ==
  \A n \in Nodes :
    (/\ pc = "idle"
     /\ eKind[n] = "plain"
     /\ results[n] # Pending
     /\ results[n].result = NoValue) =>
      /\ handle[n].color = ""
      /\ handle[n].backgroundColor = ""
      /\ handle[n].backgroundImage = ""
      /\ handle[n].dataIcon = ""
      /\ title[n] = ""

\* C8: once a pass is over in which a container's entity resolved to an icon
\* and no colour, the icon is on the container's handle (its classes, its
\* data-icon, or a callback queued for it) and the handle has no colour and
\* no background colour.
C8_IconOnlyApplied ==
  \A n \in Nodes :
    (/\ pc = "idle"
     /\ results[n] # Pending
     /\ results[n].result # NoValue
     /\ results[n].result.colorValue = Null
     /\ Truthy(results[n].result.iconValue)) =>
      LET icon == results[n].result.iconValue
      IN  /\ results[n].result.tagColors = <<>>
          /\ handle[n].color = ""
          /\ handle[n].backgroundColor = ""
          /\ \/ handle[n].dataIcon = icon
             \/ IconClasses(icon) \subseteq handle[n].classes
             \/ \E i \in 1..Len(rafQueue) : rafQueue[i] = IconCallback(n, icon)

\* C9: every resolution result and every registration with more than one tag
\* colour has source 'tag'; and the writer last called on a registered
\* container, by the pass or by the observer, is applyMultiTagHandleColor
\* exactly when its tagColors hold more than one colour, applyBlockHandleColor
\* otherwise.
C9_WriterChoice ==
  \A n \in Nodes :
    /\ (results[n] # Pending /\ results[n].result # NoValue
        /\ Len(results[n].result.tagColors) > 1) => results[n].result.colorSource = "tag"
    /\ observedElements[n] # NoValue =>
         /\ Len(observedElements[n].tagColors) > 1 => observedElements[n].colorSource = "tag"
         /\ lastWrite[n] # Null
         /\ lastWrite[n] = MultiWriter <=> Len(observedElements[n].tagColors) > 1
         /\ lastWrite[n] = SingleWriter <=> Len(observedElements[n].tagColors) <= 1

\* the observer has applied again both a multi-tag and a single-colour registration
C9_Witness ==
  /\ wrote
  /\ observedElements["n1"] # NoValue
  /\ Len(observedElements["n1"].tagColors) > 1
  /\ lastWrite["n1"] = MultiWriter
  /\ observedElements["n2"] # NoValue
  /\ Len(observedElements["n2"].tagColors) = 1
  /\ lastWrite["n2"] = SingleWriter

\* the elements whose nearest container has another data-id than n keep
\* their handle, title and inline colour from DOM a to DOM b
C10_OthersKept(n, a, b) ==
  \A m \in Nodes :
    DataId(m) # DataId(n) =>
      /\ b.handle[m] = a.handle[m]
      /\ b.title[m] = a.title[m]
      /\ b.inlineText[m] = a.inlineText[m]

\* C10: on every DOM the writers, the clears and the host produce, applyBlockHandleColor,
\* applyMultiTagHandleColor (each with the callbacks it queues) and
\* cleanupBlockStyles on a container leave unchanged every handle, title and
\* inline text whose nearest container has another data-id.
C10_WritersScoped ==
  \A n \in Nodes :
    LET d0 == [CurrentDom EXCEPT !.rafQueue = <<>>]
    IN  /\ \A s \in Styles : C10_OthersKept(n, d0, Settle(ApplyStyle(d0, n, s, settings)))
        /\ C10_OthersKept(n, d0, cleanupBlockStyles(d0, n))

\* a container with a gradient holds a nested container that carries a
\* single colour, an emoji icon and a title colour of its own
C10_Witness ==
  /\ handle["n1"].backgroundImage # ""
  /\ handle["n2"].color # ""
  /\ handle["n2"].backgroundImage = ""
  /\ handle["n2"].dataIcon # ""
  /\ handle["n1"].dataIcon = ""
  /\ title["n2"] # ""

\* C10 as first stated: also the pass's clear of a container's styles leaves
\* the elements of other entities unchanged.
C10_Original ==
  /\ C10_WritersScoped
  /\ \A n \in Nodes : C10_OthersKept(n, CurrentDom, BatchClearElement(CurrentDom, n))

\* the block ids the resolution of container n asks the backend for: its
\* entity and the tags of its entity
EntityIds(n) ==
  {DataId(n)} \cup {TagId(DataId(n), i) : i \in 1..KindCase(eKind[n]).k}

\* what the pass registers for container n when no call rejects: NoValue when
\* its entity resolves to no colour
ResolvesTo(n) ==
  LET blocks == Blocks(eKind)
      out == ResolveContainer(DataId(n), HasTags(eKind, n), blocks[DataId(n)], FreshProps(blocks))
      block == IF out.result = NoValue THEN NoValue
               ELSE ProcessBlock(out.result, settings.dark /\ settings.useDomColor)
  IN  IF block = NoValue THEN NoValue ELSE ConfigOf(block)

SingleBgColor == "#ff0000"
SingleDisplayColors == {SingleBgColor, calculateDomColor(SingleBgColor)}

\* applyBlockHandleColor(blockElement, displayColor, bgColorValue, iconValue)
\* called on container n
ApplyBlockHandleColorAct(n, displayColor, bgColorValue, iconValue) ==
  /\ Len(rafQueue) <= MaxQueue
  /\ \E d \in {applyBlockHandleColor(CurrentDom, n, displayColor, bgColorValue, iconValue,
                                       settings)} : DomBecomes(d)
  /\ fnArgs' = <<n, displayColor, bgColorValue>>
  /\ fnRet' = <<>>

\* C23: right after applyBlockHandleColor on a container, the colour of its
\* handle is the display colour; when the handle has the collapsed class its
\* background colour is the entity colour at alpha 0.45 (#ff0000 gives
\* rgba(255, 0, 0, 0.45)); when it has not, it has no background colour and
\* its opacity is 1.
C23_SingleColour ==
  fnArgs # <<>> =>
    LET hd == handle[fnArgs[1]]
    IN  /\ hd.color = fnArgs[2]
        /\ COLLAPSED \in hd.classes =>
             /\ hd.backgroundColor = hexToRgba(fnArgs[3], "0.45")
             /\ fnArgs[3] = "#ff0000" => hd.backgroundColor = "rgba(255, 0, 0, 0.45)"
        /\ COLLAPSED \notin hd.classes =>
             /\ hd.backgroundColor = ""
             /\ hd.opacity = "1"

\* C23 witness: the writer was called with the DOM colour as display colour
\* on a collapsed handle that carried a gradient before
C23_Witness ==
  /\ fnArgs = <<"n1", calculateDomColor("#ff0000"), "#ff0000">>
  /\ COLLAPSED \in handle["n1"].classes
  /\ handle["n1"].backgroundImage # ""
  /\ handle["n1"].backgroundColor = "rgba(255, 0, 0, 0.45)"

\* C32: whenever a pass has completed and none is running, the registry holds
\* exactly the containers the pass resolved to a style, each with the display
\* colour, entity colour, icon, tag colours and colour source the apply stage
\* gave the writer; a container the pass gave no writer is not in it,
\* whatever an earlier pass registered.
C32_Registered ==
  (pc = "idle" /\ \A n \in Nodes : results[n] # Pending) =>
    \A n \in Nodes :
      LET block == IF results[n].result = NoValue THEN NoValue
                   ELSE ProcessBlock(results[n].result, settings.dark /\ settings.useDomColor)
      IN  IF block = NoValue
          THEN observedElements[n] = NoValue
          ELSE /\ observedElements[n] =
                    Config(block.displayColor, block.bgColorValue, block.iconValue,
                           block.tagColors, block.colorSource)
               /\ lastWrite[n] = WriterFor(block.tagColors)

\* C32 witness: a pass completed in which the outer container resolved to no
\* style and is not registered, while its handle still has the icon classes
\* an earlier pass gave it; the nested container is registered
C32_Witness ==
  /\ pc = "idle"
  /\ \A n \in Nodes : results[n] # Pending
  /\ results["n1"].result = NoValue
  /\ observedElements["n1"] = NoValue
  /\ \E cls \in handle["n1"].classes : IsTablerClass(cls)
  /\ observedElements["n2"] # NoValue

\* the host folds or unfolds the block of container n: the handle gets the
\* collapsed class or loses it, and the observer is told when the class
\* attribute changed; fnArgs keeps the containers the host has folded
HostFolds(n) ==
  /\ Len(rafQueue) <= MaxQueue
  /\ LET folded == n \in SeqToSet(fnArgs)
         classes == IF folded THEN handle[n].classes \ {COLLAPSED}
                    ELSE handle[n].classes \cup {COLLAPSED}
         after == [CurrentWorld EXCEPT !.dom.handle[n].classes = classes]
     IN  /\ \E w \in {IF classes = handle[n].classes THEN after
                       ELSE ObserverCallback(after, <<ClassMutation(n)>>, now, cstyle,
                                             isScrolling, settings)} : Becomes(w)
         /\ fnArgs' = IF folded THEN SelectSeq(fnArgs, LAMBDA m : m # n) ELSE Append(fnArgs, n)
  /\ UNCHANGED <<passVars, cstyle, settings, isScrolling, cacheVars>>

\* C36: when a pass has just completed (fnRet says so) in which a container
\* resolved to a single colour, the handle of the container has no
\* background image, and it has a background colour only if the host has
\* folded the block.
C36_NoResidue ==
  \A n \in Nodes :
    (/\ fnRet = <<"pass">>
     /\ observedElements[n] # NoValue
     /\ Len(observedElements[n].tagColors) <= 1) =>
      /\ handle[n].backgroundImage = ""
      /\ handle[n].backgroundColor # "" => n \in SeqToSet(fnArgs)

\* the icons switched between: two Tabler icons and an emoji
SwitchIcons == {"ti ti-star", "ti ti-home", "emoji-star"}
\* the styles that carry them: one colour on the single-colour path, two tag
\* colours on the multi-tag path
SwitchStyles ==
  {Style(FALSE, icon, <<"#111111">>, "block") : icon \in SwitchIcons}
  \cup {Style(TRUE, icon, <<"#111111", "#222222">>, "tag") : icon \in SwitchIcons}
MaxSwitches == 2

\* a writer is called on the outer container, whose handle started clean;
\* fnArgs keeps the icons of the calls so far
SwitchAct(s) ==
  /\ Len(fnArgs) < MaxSwitches
  /\ WriteAct("n1", s)
  /\ fnArgs' = Append(fnArgs, s.iconValue)
  /\ fnRet' = <<>>

\* C31: once the frame after the second of two writer calls on a handle has
\* run, the handle carries exactly the icon markers of the second icon: its
\* Tabler classes are those of the icon (none for an emoji) and its data-icon
\* is the icon for an emoji and absent for a Tabler icon.
C31_IconSwitch ==
  (Len(fnArgs) = 2 /\ rafQueue = <<>>) =>
    LET hd == handle["n1"]
        i2 == fnArgs[2]
    IN  /\ {cls \in hd.classes : IsTablerClass(cls)} =
             (IF StartsWithTi(i2) THEN IconClasses(i2) ELSE {})
        /\ hd.dataIcon = (IF StartsWithTi(i2) THEN "" ELSE i2)

\* the tags of the container in the order they are considered in: the order
\* of the _tags list (here the references reversed) or that of the references
ConsideredOrder ==
  IF rCase.withOrder THEN [i \in 1..rCase.k |-> rCase.k + 1 - i]
  ELSE [i \in 1..rCase.k |-> i]

\* s is the beginning of t
IsPrefix(s, t) == Len(s) <= Len(t) /\ SubSeq(t, 1, Len(s)) = s

\* C24: for a container that shows tag markers, the tags are asked for their
\* properties in the order of the _tags list when there is one, else in the
\* order of the references; tagColors never holds more than four colours;
\* and when the entity has neither colour nor icon of its own and none of the
\* first four tags in that order has a colour or an icon, the container
\* resolves to no style.
C24_OrderAndCap ==
  (rStage # "input" /\ rHasTags) =>
    /\ LET asked == FilterSeq(rOut.fetched, {TagId(ContainerId, i) : i \in 1..rCase.k})
       IN  IsPrefix(asked, [j \in 1..rCase.k |-> TagId(ContainerId, ConsideredOrder[j])])
    /\ rOut.result # NoValue => Len(rOut.result.tagColors) <= MAX_TAGS
    /\ (/\ rCase.ownKind \in {"none", "disabled", "empty"}
        /\ \A j \in 1..Min(rCase.k, MAX_TAGS) : rCase.tagKinds[ConsideredOrder[j]] = "none")
         => rOut.result = NoValue

(***************************************************************************)
(* Specifications                                                          *)
(***************************************************************************)
\* the DOM cache, the document it queries and its history
engineVars == <<domCacheVars, documentVars, domRet, schedVars, sideVars>>
vars == <<cacheVars, resolveVars, domVars, settings, observerVars, passVars, engineVars>>
pluginVars == <<domVars, settings, observerVars, passVars>>

\* the parts of the state a specification does not drive stay as constructed
CacheParked ==
  /\ blockPropertiesCache = <<>>
  /\ now = 0
  /\ advances = 0
  /\ stored = [b \in CacheIds |-> [written |-> FALSE, at |-> 0, value |-> NoProps]]
  /\ lastRead = NoRead

ResolveParked ==
  /\ rCase = [k |-> 0, ownKind |-> "none", tagKinds |-> [i \in 1..MaxRefs |-> "none"],
               withOther |-> FALSE, withOrder |-> FALSE]
  /\ rHasTags = FALSE
  /\ rDark = FALSE
  /\ rStage = "input"
  /\ rOut = NoOutcome
  /\ rProcessed = NoValue

EngineParked ==
  /\ DomCacheInit
  /\ DocumentInit
  /\ SchedInit
  /\ SideParked

PluginParked ==
  /\ PluginInit
  /\ settings = DefaultSettings
  /\ eKind = [n \in Nodes |-> "plain"]

\* the property cache under set / get / cleanup calls
SpecCacheInit == CacheInit /\ ResolveParked /\ PluginParked /\ EngineParked
SpecCacheNext ==
  \/ (\E b \in CacheIds, p \in CachedResults : CacheSet(b, p))
       /\ UNCHANGED <<resolveVars, pluginVars, engineVars>>
  \/ (\E b \in CacheIds : CacheGet(b)) /\ UNCHANGED <<resolveVars, pluginVars, engineVars>>
  \/ CacheCleanup /\ UNCHANGED <<resolveVars, pluginVars, engineVars>>
  \/ (\E d \in ClockSteps : CacheAdvance(d)) /\ UNCHANGED <<resolveVars, pluginVars, engineVars>>
SpecCache == SpecCacheInit /\ [][SpecCacheNext]_vars

(***************************************************************************)
(* An inline reference to the entity of the container, in the same pass    *)
(***************************************************************************)
\* the object an inline-reference promise resolves to
InlineResult(blockId, aliasBlockId, colorValue, iconValue, colorSource, tagColors) ==
  [Result(blockId, aliasBlockId, colorValue, iconValue, colorSource, tagColors)
     EXCEPT !.elementType = "inline-ref"]

\* the promise of one .orca-inline[data-type="r"] element with data-ref refId
\* (main.ts 2331-2411): NoValue for null
ResolveInlineRef(refId, blockData, P) ==
  LET blockStyleProps == P[refId] IN
  IF HasColor(blockStyleProps)
  THEN LET firstTagRefs == TagRefsOf(blockData.refs)
       IN  InlineResult(refId, refId, blockStyleProps.colorValue,
                        IF blockStyleProps.iconValue = Null /\ firstTagRefs # <<>>
                        THEN P[firstTagRefs[1].to].iconValue
                        ELSE blockStyleProps.iconValue,
                        "block", <<blockStyleProps.colorValue>>)
  ELSE IF blockData = NoValue THEN NoValue   \* blockData.refs throws: catch
  ELSE IF blockData.refs = <<>> THEN NoValue
  ELSE LET allTagRefs == TagRefsOf(blockData.refs) IN
  IF allTagRefs = <<>> THEN NoValue
  ELSE LET coloredTagProps == getFirstValidTagProps(allTagRefs, 1, P, <<>>, <<>>).valid IN
  IF coloredTagProps = <<>> THEN NoValue
  ELSE LET firstColoredTagProps == coloredTagProps[1]
       IN  InlineResult(refId, firstColoredTagProps.blockId,
                        firstColoredTagProps.props.colorValue,
                        firstColoredTagProps.props.iconValue,
                        "tag", <<firstColoredTagProps.props.colorValue>>)

\* the inline style of the .orca-inline-r-content of an inline reference
InlineContent(color, borderBottomColor, backgroundImage) ==
  [color |-> color, borderBottomColor |-> borderBottomColor, backgroundImage |-> backgroundImage]
NoInlineStyle == InlineContent("", "", "")

\* displayColor.includes('oklch')
IncludesOklch(displayColor) ==
  \E i \in 1..Len(TagColorTable) : displayColor = calculateDomColor(TagColorTable[i])

\* applyInlineRefColor on the content element
applyInlineRefColor(contentElement, displayColor, tagColors, colorSource) ==
  [contentElement EXCEPT
     !.color = displayColor,
     !.borderBottomColor =
        IF IncludesOklch(displayColor)
        THEN "color-mix(in oklch, " \o displayColor \o " 65%, transparent)"
        ELSE hexToRgba(displayColor, "0.65")]

\* Promise.all of a pass over a panel that shows the container of entity
\* ContainerId and an inline reference to it: rOut is the container's outcome,
\* fnArgs holds what the inline reference's promise resolved to
InlineResolveAct ==
  /\ rStage = "input"
  /\ rOut' = ResolveContainer(ContainerId, rHasTags, rBlocks[ContainerId], FreshProps(rBlocks))
  /\ fnArgs' = <<ResolveInlineRef(ContainerId, rBlocks[ContainerId], FreshProps(rBlocks))>>
  /\ rStage' = "resolved"
  /\ UNCHANGED <<rCase, rHasTags, rDark, rProcessed, fnRet>>

\* the apply stage of that pass (main.ts 2509-2616): rProcessed is the
\* container's entry of processedBlocks, fnRet holds the style the inline
\* reference's content element has afterwards
InlineApplyAct(dark) ==
  /\ rStage = "resolved"
  /\ rDark' = dark
  /\ rProcessed' = IF rOut.result = NoValue THEN NoValue ELSE ProcessBlock(rOut.result, dark)
  /\ fnRet' = LET block == IF fnArgs[1] = NoValue THEN NoValue ELSE ProcessBlock(fnArgs[1], dark)
              IN  <<IF block = NoValue THEN NoInlineStyle
                    ELSE applyInlineRefColor(NoInlineStyle, block.displayColor,
                                             block.tagColors, block.colorSource)>>
  /\ rStage' = "processed"
  /\ UNCHANGED <<rCase, rHasTags, rOut, fnArgs>>

\* C37: after a pass over a panel that shows the container of an entity, with
\* its tag markers when the entity has tags, and an inline reference to the
\* same entity, the colour of the inline reference is the display colour the
\* pass gave the container's handle (none when it gave none), and the inline
\* reference has no background image.
C37_InlineAgrees ==
  (rStage = "processed" /\ fnRet # <<>> /\ rHasTags = (rCase.k > 0)) =>
    /\ fnRet[1].color = (IF rProcessed = NoValue THEN "" ELSE rProcessed.displayColor)
    /\ fnRet[1].backgroundImage = ""

inlineRest == <<cacheVars, pluginVars, domCacheVars, documentVars, domRet, schedVars, failing, tick>>
SpecInlineInit == ResolveInit /\ CacheParked /\ PluginParked /\ EngineParked
SpecInlineNext ==
  \/ InlineResolveAct /\ UNCHANGED inlineRest
  \/ (\E dark \in BOOLEAN : InlineApplyAct(dark)) /\ UNCHANGED inlineRest
SpecInline == SpecInlineInit /\ [][SpecInlineNext]_vars

\* the resolution of one container over every small backend
SpecResolveInit == ResolveInit /\ CacheParked /\ PluginParked /\ EngineParked
SpecResolveNext ==
  \/ ResolveAct /\ UNCHANGED <<cacheVars, pluginVars, engineVars>>
  \/ (\E dark \in BOOLEAN : ProcessAct(dark)) /\ UNCHANGED <<cacheVars, pluginVars, engineVars>>
SpecResolve == SpecResolveInit /\ [][SpecResolveNext]_vars

\* the writers and the clears on the DOM of one panel
SpecWriteInit ==
  /\ PluginInit
  /\ settings \in SettingsChoices
  /\ eKind = [n \in Nodes |-> "plain"]
  /\ CacheParked
  /\ ResolveParked
  /\ EngineParked
SpecWriteNext ==
  \/ (\E n \in Nodes : \E s \in StylesOf(n) : WriteAct(n, s)) /\ UNCHANGED <<resolveVars, engineVars>>
  \/ SettleAct /\ UNCHANGED <<resolveVars, engineVars>>
  \/ (\E n \in Nodes : CleanupAct(n)) /\ UNCHANGED <<resolveVars, engineVars>>
  \/ (\E n \in Nodes : BatchClearAct(n)) /\ UNCHANGED <<resolveVars, engineVars>>
  \/ (\E n \in Collapsible : CollapseAct(n)) /\ UNCHANGED <<resolveVars, engineVars>>
SpecWrite == SpecWriteInit /\ [][SpecWriteNext]_vars

\* the plugin in one panel: passes, frames, the observer, the host, the backend
Init == MainInit /\ CacheParked /\ ResolveParked /\ EngineParked
Next ==
  \/ PassStart /\ UNCHANGED <<resolveVars, engineVars>>
  \/ (\E n \in Nodes : ResolveStep(n)) /\ UNCHANGED <<resolveVars, engineVars>>
  \/ PassFinish /\ UNCHANGED <<resolveVars, engineVars>>
  \/ Frame /\ UNCHANGED <<resolveVars, engineVars>>
  \/ (\E n \in Collapsible : HostToggleCollapsed(n)) /\ UNCHANGED <<resolveVars, engineVars>>
  \/ (\E n \in Collapsible : HostChildList(n, TRUE)) /\ UNCHANGED <<resolveVars, engineVars>>
  \/ (\E n \in Editable : \E kind \in KindsOf(n) : BackendEdit(n, kind))
       /\ UNCHANGED <<resolveVars, engineVars>>
  \/ (\E d \in ElapseSteps : Elapse(d)) /\ UNCHANGED <<resolveVars, engineVars>>
Spec == Init /\ [][Next]_vars

\* the plugin when the host sends the observer nothing: the only mutations
\* the observer sees are those of the writers' own callbacks, the host at
\* most restyles a container element; time keeps passing, and nothing is
\* assumed of how soon a frame follows
SpecEchoNext ==
  \/ PassStart /\ UNCHANGED <<resolveVars, engineVars>>
  \/ (\E n \in Nodes : ResolveStep(n)) /\ UNCHANGED <<resolveVars, engineVars>>
  \/ PassFinish /\ UNCHANGED <<resolveVars, engineVars>>
  \/ Frame /\ UNCHANGED <<resolveVars, engineVars>>
  \/ (\E n \in Nodes : \E v \in HostStyles(n) : HostSetContainerStyle(n, v))
       /\ UNCHANGED <<resolveVars, engineVars>>
  \/ (\E d \in ElapseSteps : Elapse(d)) /\ UNCHANGED <<resolveVars, engineVars>>
SpecEcho ==
  /\ Init
  /\ [][SpecEchoNext]_vars
  /\ WF_vars((\E d \in ElapseSteps : Elapse(d)) /\ UNCHANGED <<resolveVars, engineVars>>)

\* the DOM cache queried while the host attaches and removes elements
SpecDomCacheInit ==
  /\ DomCacheInit
  /\ DocumentInit
  /\ CacheParked
  /\ ResolveParked
  /\ PluginParked
  /\ SchedInit
  /\ SideParked
SpecDomCacheNext ==
  \/ (\E p \in PanelIds : GetPanelElementAct(p))
       /\ UNCHANGED <<cacheVars, resolveVars, pluginVars, schedVars, sideVars>>
  \/ (\E p \in PanelIds : GetContainerElementsAct(p))
       /\ UNCHANGED <<cacheVars, resolveVars, pluginVars, schedVars, sideVars>>
  \/ (\E p \in PanelIds : ClearPanelCacheAct(p))
       /\ UNCHANGED <<cacheVars, resolveVars, pluginVars, schedVars, sideVars>>
  \/ CleanupInvalidReferencesAct /\ UNCHANGED <<cacheVars, resolveVars, pluginVars, schedVars, sideVars>>
  \/ (\E pe \in SeqToSet(PanelElements) : HostAttachPanel(pe))
       /\ UNCHANGED <<cacheVars, resolveVars, pluginVars, schedVars, sideVars>>
  \/ (\E pe \in SeqToSet(PanelElements) : HostDetachPanel(pe))
       /\ UNCHANGED <<cacheVars, resolveVars, pluginVars, schedVars, sideVars>>
  \/ (\E c \in SeqToSet(Containers) : HostToggleContainer(c))
       /\ UNCHANGED <<cacheVars, resolveVars, pluginVars, schedVars, sideVars>>
SpecDomCache == SpecDomCacheInit /\ [][SpecDomCacheNext]_vars

\* the plugin in one panel while get-block rejects for some block ids: the
\* passes, the frames, the observer on a collapse, the clock
FaultIds == {DataId("n1"), DataId("n2"), TagId(DataId("n1"), 1), TagId(DataId("n1"), 2)}
SpecFaultsInit ==
  /\ PluginInit
  /\ settings \in SettingsChoices
  /\ eKind \in {k \in [Nodes -> Kinds] : \A n \in Nodes : k[n] \in KindsOf(n)}
  /\ CacheParked
  /\ ResolveParked
  /\ DomCacheInit
  /\ DocumentInit
  /\ SchedInit
  /\ failing \in SUBSET FaultIds
  /\ fnArgs = <<>>
  /\ fnRet = <<>>
  /\ tick = NoTick({})
faultRest == <<resolveVars, domCacheVars, documentVars, domRet, schedVars, sideVars>>
SpecFaultsNext ==
  \/ PassStart /\ UNCHANGED faultRest
  \/ (\E n \in Nodes : ResolveStep(n)) /\ UNCHANGED faultRest
  \/ PassFinish /\ UNCHANGED faultRest
  \/ Frame /\ UNCHANGED faultRest
  \/ (\E n \in Collapsible : HostToggleCollapsed(n)) /\ UNCHANGED faultRest
  \/ (\E d \in ElapseSteps : Elapse(d)) /\ UNCHANGED faultRest
SpecFaults == SpecFaultsInit /\ [][SpecFaultsNext]_vars

\* a function called once on arguments drawn at the start
callRest == <<cacheVars, resolveVars, pluginVars, domCacheVars, documentVars, domRet, schedVars,
              failing, tick>>
CallParked ==
  /\ CacheParked
  /\ ResolveParked
  /\ PluginParked
  /\ DomCacheInit
  /\ DocumentInit
  /\ SchedInit
  /\ failing = {}
  /\ tick = NoTick({})

\* generateMultiColorBackground on every list of up to MaxColors colours
SpecGradientInit == GradientInit /\ CallParked
SpecGradientNext == GenerateMultiColorBackgroundAct /\ UNCHANGED callRest
SpecGradient == SpecGradientInit /\ [][SpecGradientNext]_vars

\* getFinalProperties on every block of TanaCases
SpecTanaInit == TanaInit /\ CallParked
SpecTanaNext == GetFinalPropertiesAct /\ UNCHANGED callRest
SpecTana == SpecTanaInit /\ [][SpecTanaNext]_vars

\* the single-colour writer called on the DOM the writers, the frames and the
\* host leave
singleRest == <<resolveVars, domCacheVars, documentVars, domRet, schedVars, failing, tick>>
SpecSingleInit ==
  /\ PluginInit
  /\ settings \in SettingsChoices
  /\ eKind = [n \in Nodes |-> "plain"]
  /\ CacheParked
  /\ ResolveParked
  /\ EngineParked
SpecSingleNext ==
  \/ (\E n \in Nodes : \E displayColor \in SingleDisplayColors : \E iconValue \in StyleIcons :
        ApplyBlockHandleColorAct(n, displayColor, SingleBgColor, iconValue))
       /\ UNCHANGED singleRest
  \/ (\E n \in Nodes : \E s \in NestedStyles : WriteAct(n, s))
       /\ fnArgs' = <<>> /\ fnRet' = <<>> /\ UNCHANGED singleRest
  \/ SettleAct /\ fnArgs' = <<>> /\ fnRet' = <<>> /\ UNCHANGED singleRest
  \/ (\E n \in Collapsible : CollapseAct(n))
       /\ fnArgs' = <<>> /\ fnRet' = <<>> /\ UNCHANGED singleRest
SpecSingle == SpecSingleInit /\ [][SpecSingleNext]_vars

\* the plugin in one panel while the user edits the tags of the outer
\* container and the host folds and unfolds its block
residueRest == <<resolveVars, domCacheVars, documentVars, domRet, schedVars, failing, tick>>
SpecResidueInit ==
  /\ PluginInit
  /\ settings = DefaultSettings
  /\ eKind \in {k \in [Nodes -> Kinds] : \A n \in Nodes : k[n] \in KindsOf(n)}
  /\ CacheParked
  /\ ResolveParked
  /\ EngineParked
SpecResidueNext ==
  \/ PassStart /\ fnRet' = <<>> /\ UNCHANGED <<residueRest, fnArgs>>
  \/ (\E n \in Nodes : ResolveStep(n)) /\ fnRet' = <<>> /\ UNCHANGED <<residueRest, fnArgs>>
  \/ PassFinish /\ fnRet' = <<"pass">> /\ UNCHANGED <<residueRest, fnArgs>>
  \/ Frame /\ fnRet' = <<>> /\ UNCHANGED <<residueRest, fnArgs>>
  \/ (\E n \in Collapsible : HostFolds(n)) /\ fnRet' = <<>> /\ UNCHANGED residueRest
  \/ (\E n \in Editable : \E kind \in KindsOf(n) : BackendEdit(n, kind))
       /\ fnRet' = <<>> /\ UNCHANGED <<residueRest, fnArgs>>
  \/ Elapse(UPDATE_THROTTLE) /\ fnRet' = <<>> /\ UNCHANGED <<residueRest, fnArgs>>
SpecResidue == SpecResidueInit /\ [][SpecResidueNext]_vars

\* two writer calls in a row on one handle, each followed by its frame, while
\* the host collapses and expands the handle
SpecSwitchNext ==
  \/ (\E s \in SwitchStyles : SwitchAct(s)) /\ UNCHANGED singleRest
  \/ SettleAct /\ UNCHANGED <<fnArgs, fnRet, singleRest>>
  \/ (\E n \in Collapsible : CollapseAct(n)) /\ UNCHANGED <<fnArgs, fnRet, singleRest>>
SpecSwitch == SpecSingleInit /\ [][SpecSwitchNext]_vars

\* the plugin in one panel under the batches of the host: passes, frames,
\* collapses, insertions and removals, scrolling, the clock; the outer
\* container is registered or not, and so is the nested one
observerRest == <<resolveVars, domCacheVars, documentVars, domRet, schedVars, failing, fnArgs,
                  fnRet>>
Restyled == {"n2"}
ObserverKinds(n) == IF n = "n1" THEN {"plain", "tag1"} ELSE {"plain", "own"}
SpecObserverInit ==
  /\ PluginInit
  /\ settings = DefaultSettings
  /\ eKind \in {k \in [Nodes -> Kinds] : \A n \in Nodes : k[n] \in ObserverKinds(n)}
  /\ CacheParked
  /\ ResolveParked
  /\ EngineParked
SpecObserverNext ==
  \/ PassStart /\ tick' = NoTick({}) /\ UNCHANGED observerRest
  \/ (\E n \in Nodes : ResolveStep(n)) /\ tick' = NoTick({}) /\ UNCHANGED observerRest
  \/ PassFinish /\ tick' = NoTick({}) /\ UNCHANGED observerRest
  \/ Frame /\ tick' = NoTick(tick.pending \ {rafQueue[i].node : i \in 1..Len(rafQueue)})
       /\ UNCHANGED observerRest
  \/ (\E batch \in HostBatches : HostDelivers(batch)) /\ UNCHANGED observerRest
  \/ ScrollStarts /\ UNCHANGED observerRest
  \/ ScrollEnds /\ UNCHANGED observerRest
  \/ Elapse(UPDATE_THROTTLE) /\ tick' = NoTick(tick.pending) /\ UNCHANGED observerRest
SpecObserver == SpecObserverInit /\ [][SpecObserverNext]_vars

\* the same with both containers registered, where the host also restyles the
\* nested container element; the batches are single records, or the two
\* handles changing class together
MismatchBatches ==
  {<<r>> : r \in HostRecords} \cup {<<ClassMutation("n1"), ClassMutation("n2")>>}
SpecMismatchInit ==
  /\ PluginInit
  /\ settings = DefaultSettings
  /\ eKind = [n \in Nodes |-> IF n = "n1" THEN "tag1" ELSE "own"]
  /\ CacheParked
  /\ ResolveParked
  /\ EngineParked
SpecMismatchNext ==
  \/ PassStart /\ tick' = NoTick({}) /\ UNCHANGED observerRest
  \/ (\E n \in Nodes : ResolveStep(n)) /\ tick' = NoTick({}) /\ UNCHANGED observerRest
  \/ PassFinish /\ tick' = NoTick({}) /\ UNCHANGED observerRest
  \/ Frame /\ tick' = NoTick({}) /\ UNCHANGED observerRest
  \/ (\E batch \in MismatchBatches : HostDelivers(batch)) /\ UNCHANGED observerRest
  \/ (\E n \in Restyled : \E v \in ObservedStyles(n) : HostSetContainerStyle(n, v))
       /\ tick' = NoTick({}) /\ UNCHANGED observerRest
  \/ ScrollStarts /\ UNCHANGED observerRest
  \/ ScrollEnds /\ UNCHANGED observerRest
  \/ Elapse(UPDATE_THROTTLE) /\ tick' = NoTick({}) /\ UNCHANGED observerRest
SpecMismatch == SpecMismatchInit /\ [][SpecMismatchNext]_vars

\* the same, where time passes, frames come and scrolling ends
SpecObserverLive ==
  /\ SpecObserver
  /\ WF_vars(Elapse(UPDATE_THROTTLE) /\ tick' = NoTick(tick.pending) /\ UNCHANGED observerRest)
  /\ WF_vars(Frame /\ tick' = NoTick(tick.pending \ {rafQueue[i].node : i \in 1..Len(rafQueue)})
               /\ UNCHANGED observerRest)
  /\ WF_vars(ScrollEnds /\ UNCHANGED observerRest)

\* what every specification of the scheduler leaves alone
engineState == <<timers, debounceTimer, cleanupInterval, retryTimer, scrollEndTimer, observer,
                 retryCount, flights, applied, h, domCacheVars, blockPropertiesCache,
                 observedElements, elementStyleStates, isScrolling>>
hostVars == <<panels, docPanels, docChildren, eValue, backendDown>>
schedQuiet == <<lifecycle, timers, debounceTimer, cleanupInterval, retryTimer, scrollEndTimer,
                observer, retryCount, flights, applied, eValue, backendDown>>
schedRest == <<now, advances, stored, lastRead, resolveVars, domVars, settings,
               lastUpdateTime, lastWrite, matchTicks, wrote, passVars, domRet, sideVars>>

\* the plugin before load(), the document showing the panel elements rendered
SchedStart(rendered) ==
  /\ SchedInit
  /\ DomCacheInit
  /\ panels = <<ViewPanel("p1", "block", "1")>>
  /\ docPanels = rendered
  /\ docChildren = SeqToSet(Containers)
  /\ CacheParked
  /\ ResolveParked
  /\ handle = [n \in Nodes |-> CleanHandle]
  /\ title = [n \in Nodes |-> ""]
  /\ inlineText = [n \in Nodes |-> ""]
  /\ cstyle = [n \in Nodes |-> EmptyObserved]
  /\ rafQueue = <<>>
  /\ observedElements = <<>>
  /\ elementStyleStates = <<>>
  /\ lastUpdateTime = 0 - UPDATE_THROTTLE
  /\ isScrolling = FALSE
  /\ lastWrite = [n \in Nodes |-> Null]
  /\ matchTicks = [n \in Nodes |-> 0]
  /\ wrote = FALSE
  /\ pc = "idle"
  /\ results = [n \in Nodes |-> Pending]
  /\ settings = DefaultSettings
  /\ eKind = [n \in Nodes |-> "plain"]
  /\ SideParked

\* the host renders or removes a panel element
HostRenders(pe) ==
  /\ lifecycle = "loaded"
  /\ HostAttachPanel(pe)
  /\ h' = [h EXCEPT !.step = NoStep]
  /\ UNCHANGED <<schedQuiet, cacheVars, resolveVars, pluginVars, sideVars>>
HostRemoves(pe) ==
  /\ lifecycle = "loaded"
  /\ HostDetachPanel(pe)
  /\ h' = [h EXCEPT !.step = NoStep]
  /\ UNCHANGED <<schedQuiet, cacheVars, resolveVars, pluginVars, sideVars>>

\* the scheduler from load() to unload() and after, the first panel rendered
\* before load(), the second while loaded, both for good: notifications,
\* panels opened and closed, scrolling, the clock
SpecSchedInit == SchedStart({"P1a"})
SpecSchedNext ==
  \/ Load /\ UNCHANGED <<hostVars, schedRest>>
  \/ Unload /\ UNCHANGED <<hostVars, schedRest>>
  \/ Notify /\ UNCHANGED <<hostVars, schedRest>>
  \/ \E t \in Topologies :
       HostSetPanels(t) /\ UNCHANGED <<docPanels, docChildren, eValue, backendDown, schedRest>>
  \/ Scroll /\ UNCHANGED <<hostVars, schedRest>>
  \/ Tick /\ UNCHANGED <<hostVars, schedRest>>
  \/ DebounceFires /\ UNCHANGED <<hostVars, schedRest>>
  \/ RescrollFires /\ UNCHANGED <<hostVars, schedRest>>
  \/ ScrollEndFires /\ UNCHANGED <<hostVars, schedRest>>
  \/ InitFires /\ UNCHANGED <<hostVars, schedRest>>
  \/ IntervalFires /\ UNCHANGED <<hostVars, schedRest>>
  \/ \E i \in 1..MaxFlights : FlightResumes(i) /\ UNCHANGED <<hostVars, schedRest>>
  \/ HostRenders("P2a")
SpecSched == SpecSchedInit /\ [][SpecSchedNext]_vars

\* the loaded plugin under a bounded run of notifications, scroll and touch
\* events; timers fire and awaiting passes go on
scrollRest == <<now, advances, stored, lastRead, resolveVars, domVars, settings,
                lastUpdateTime, lastWrite, matchTicks, wrote, passVars, domRet, failing, tick>>
SpecScrollNext ==
  \/ Load /\ UNCHANGED <<hostVars, scrollRest, fnArgs, fnRet>>
  \/ NotifyEvent /\ UNCHANGED <<hostVars, scrollRest>>
  \/ ScrollEvent /\ UNCHANGED <<hostVars, scrollRest>>
  \/ TouchMove /\ UNCHANGED <<hostVars, scrollRest>>
  \/ TouchEnd /\ UNCHANGED <<hostVars, scrollRest>>
  \/ TouchCancel /\ UNCHANGED <<panels, docPanels, docChildren, scrollRest>>
  \/ Tick /\ UNCHANGED <<hostVars, scrollRest, fnArgs, fnRet>>
  \/ ScrollDebounceFires /\ UNCHANGED <<hostVars, scrollRest>>
  \/ RescrollFires /\ UNCHANGED <<hostVars, scrollRest, fnArgs, fnRet>>
  \/ ScrollEndFires /\ UNCHANGED <<hostVars, scrollRest, fnArgs, fnRet>>
  \/ InitFiresAct /\ UNCHANGED <<hostVars, scrollRest>>
  \/ (\E i \in 1..MaxFlights : FlightResumesAct(i)) /\ UNCHANGED <<hostVars, scrollRest>>
\* the debounce timer, or the timer of initializeWithRetry, is due and its
\* callback can run
DebounceDue ==
  /\ Len(flights) < MaxFlights
  /\ FreeHandles(CurrentEngine) # {}
  /\ Due(timers, "debounce") # {}
InitDue ==
  /\ Len(flights) < MaxFlights
  /\ FreeHandles(CurrentEngine) # {}
  /\ Due(timers, "init") # {}

\* the event loop runs every due callback and every settled promise, and time
\* passes. A due debounce or init timer stays due until its callback runs and
\* is gone once it ran, so weak fairness of those two callbacks is []<> of
\* the timer not being due.
SpecScroll ==
  /\ SchedStart({"P1a"})
  /\ [][SpecScrollNext]_vars
  /\ WF_vars(Tick /\ UNCHANGED <<hostVars, scrollRest, fnArgs, fnRet>>)
  /\ WF_vars(RescrollFires /\ UNCHANGED <<hostVars, scrollRest, fnArgs, fnRet>>)
  /\ WF_vars(ScrollEndFires /\ UNCHANGED <<hostVars, scrollRest, fnArgs, fnRet>>)
  /\ WF_vars((\E i \in 1..MaxFlights : FlightResumesAct(i)) /\ UNCHANGED <<hostVars, scrollRest>>)
  /\ []<>(~DebounceDue)
  /\ []<>(~InitDue)

\* no pass the debounce timer started goes on to its apply stage while
\* isScrolling is true
NoDebouncedWriteWhileScrolling ==
  [][(h'.step.kind = "resume" /\ isScrolling)
       => DebounceStarted(fnRet') = DebounceStarted(fnRet)]_vars

\* once the host events have stopped, isScrolling becomes false
ScrollingEnds == (EventsOver /\ isScrolling) ~> ~isScrolling

\* once the host events have stopped, a re-scheduled notification gets its pass
DeferredPassRuns ==
  (EventsOver /\ PendingOf(timers, {"rescroll"}) # {}) ~> (h.step.kind = "debounce")

\* C38: no debounced pass writes styles while isScrolling is true; once scroll
\* and touch events have stopped, isScrolling becomes false again and a
\* notification the debounce callback re-scheduled during scrolling gets its
\* pass.
C38_ScrollNoLoss ==
  /\ NoDebouncedWriteWhileScrolling
  /\ ScrollingEnds
  /\ DeferredPassRuns

\* the writers, the clears and unload() against the frames: fnRet holds the
\* containers cleared since the last writer call, fnArgs is <<"unloaded">>
\* once unload() ran
DeferredWrite(n, s) ==
  /\ fnArgs = <<>>
  /\ WriteAct(n, s)
  /\ fnRet' = <<>>
  /\ UNCHANGED fnArgs
DeferredFrame == SettleAct /\ UNCHANGED <<fnArgs, fnRet>>
DeferredCleanup(n) ==
  /\ fnArgs = <<>>
  /\ n \notin SeqToSet(fnRet)
  /\ CleanupAct(n)
  /\ fnRet' = Append(fnRet, n)
  /\ UNCHANGED fnArgs
DeferredBatchClear(n) ==
  /\ fnArgs = <<>>
  /\ n \notin SeqToSet(fnRet)
  /\ BatchClearAct(n)
  /\ fnRet' = Append(fnRet, n)
  /\ UNCHANGED fnArgs
\* unload() (main.ts 2716-2751) touches no element and cancels no frame
DeferredUnload ==
  /\ fnArgs = <<>>
  /\ fnArgs' = <<"unloaded">>
  /\ UNCHANGED <<domVars, settings, observerVars, passVars, cacheVars, fnRet>>

\* C39: a frame changes nothing on the handle of a container that was cleared
\* (by cleanupBlockStyles or by the batch clear) after the last writer call,
\* and nothing on any handle once unload() has run.
C39_NoOvertake ==
  [][(rafQueue # <<>> /\ rafQueue' = <<>>) =>
       \A n \in Nodes :
         (n \in SeqToSet(fnRet) \/ fnArgs = <<"unloaded">>) => handle'[n] = handle[n]]_vars

SpecDeferredNext ==
  \/ (\E n \in Nodes : \E s \in StylesOf(n) : DeferredWrite(n, s)) /\ UNCHANGED singleRest
  \/ DeferredFrame /\ UNCHANGED singleRest
  \/ (\E n \in Nodes : DeferredCleanup(n)) /\ UNCHANGED singleRest
  \/ (\E n \in Nodes : DeferredBatchClear(n)) /\ UNCHANGED singleRest
  \/ DeferredUnload /\ UNCHANGED singleRest
SpecDeferred == SpecSingleInit /\ [][SpecDeferredNext]_vars

\* the observer manager alone, called in any order while the host renders and
\* removes panel elements and the retry timer runs
subscribeRest == <<now, advances, stored, lastRead, resolveVars, domVars, settings,
                   lastUpdateTime, lastWrite, matchTicks, wrote, passVars, failing, tick,
                   lifecycle, eValue, backendDown>>
SpecSubscribeNext ==
  \/ StartObserverAct /\ UNCHANGED <<documentVars, domRet, subscribeRest>>
  \/ RefreshObserverAct /\ UNCHANGED <<documentVars, domRet, subscribeRest>>
  \/ StopObserverAct /\ UNCHANGED <<documentVars, domRet, subscribeRest>>
  \/ RetryFiresAct /\ UNCHANGED <<documentVars, domRet, subscribeRest>>
  \/ RetryClock /\ UNCHANGED <<documentVars, domRet, subscribeRest>>
  \/ (\E pe \in SeqToSet(PanelElements) : HostAttachPanel(pe))
       /\ UNCHANGED <<engineState, fnArgs, fnRet, subscribeRest>>
  \/ (\E pe \in SeqToSet(PanelElements) : HostDetachPanel(pe))
       /\ UNCHANGED <<engineState, fnArgs, fnRet, subscribeRest>>
SpecSubscribe == SchedStart({}) /\ [][SpecSubscribeNext]_vars

\* a loaded plugin on one rendered panel whose debounced passes may throw:
\* notifications, scrolling, the clock
throwRest == <<now, advances, stored, lastRead, resolveVars, domVars, settings,
               lastUpdateTime, lastWrite, matchTicks, wrote, passVars, domRet, failing, tick>>
SpecThrowsNext ==
  \/ Load /\ UNCHANGED <<hostVars, throwRest, fnArgs, fnRet>>
  \/ NotifyAct /\ UNCHANGED <<hostVars, throwRest>>
  \/ Scroll /\ UNCHANGED <<hostVars, throwRest, fnArgs, fnRet>>
  \/ Tick /\ UNCHANGED <<hostVars, throwRest, fnArgs, fnRet>>
  \/ DebounceFiresAct /\ UNCHANGED <<hostVars, throwRest>>
  \/ DebounceThrows /\ UNCHANGED <<hostVars, throwRest>>
  \/ RescrollFires /\ UNCHANGED <<hostVars, throwRest, fnArgs, fnRet>>
  \/ ScrollEndFires /\ UNCHANGED <<hostVars, throwRest, fnArgs, fnRet>>
  \/ InitFiresAct /\ UNCHANGED <<hostVars, throwRest>>
  \/ (\E i \in 1..MaxFlights : FlightResumesAct(i)) /\ UNCHANGED <<hostVars, throwRest>>
  \/ (\E i \in 1..MaxFlights : \E point \in ThrowPoints : FlightThrows(i, point))
       /\ UNCHANGED <<hostVars, throwRest>>
SpecThrows == SchedStart({"P1a"}) /\ [][SpecThrowsNext]_vars

\* the initial load: nothing rendered at load(), the host renders and removes
\* panel elements while initializeWithRetry and observePanelContainers retry
SpecInitInit == SchedStart({})
SpecInitNext ==
  \/ Load /\ UNCHANGED <<hostVars, schedRest>>
  \/ Unload /\ UNCHANGED <<hostVars, schedRest>>
  \/ Tick /\ UNCHANGED <<hostVars, schedRest>>
  \/ InitFires /\ UNCHANGED <<hostVars, schedRest>>
  \/ AttachRetryFires /\ UNCHANGED <<hostVars, schedRest>>
  \/ IntervalFires /\ UNCHANGED <<hostVars, schedRest>>
  \/ \E i \in 1..MaxFlights : FlightResumes(i) /\ UNCHANGED <<hostVars, schedRest>>
  \/ \E pe \in {"P1a", "P2a"} : HostRenders(pe)
  \/ \E pe \in {"P1a", "P2a"} : HostRemoves(pe)
SpecInit == SpecInitInit /\ [][SpecInitNext]_vars

\* the passes of a loaded plugin on one rendered panel while the user edits
\* the entities and the backend fails and recovers
SpecPassesInit == SchedStart({"P1a"})
SpecPassesNext ==
  \/ Load /\ UNCHANGED <<hostVars, schedRest>>
  \/ Notify /\ UNCHANGED <<hostVars, schedRest>>
  \/ Tick /\ UNCHANGED <<hostVars, schedRest>>
  \/ DebounceFires /\ UNCHANGED <<hostVars, schedRest>>
  \/ InitFires /\ UNCHANGED <<hostVars, schedRest>>
  \/ \E i \in 1..MaxFlights : FlightResumes(i) /\ UNCHANGED <<hostVars, schedRest>>
  \/ \E color \in EntityColors :
       EntityEdit(color)
       /\ UNCHANGED <<lifecycle, engineState, panels, docPanels, docChildren, backendDown,
                      schedRest>>
  \/ BackendToggleDown
       /\ UNCHANGED <<lifecycle, engineState, panels, docPanels, docChildren, eValue, schedRest>>
SpecPasses == SpecPassesInit /\ [][SpecPassesNext]_vars

====
